---------------------------- MODULE Spec2Model ----------------------------
(***************************************************************************)
(* A model of the schema engine of dbm-merge (SchemaSync): the normalizer, *)
(* the differ, the DDL generators and the two catalog loaders.             *)
(*                                                                         *)
(* JavaScript strings are modelled as sequences of one-character strings,  *)
(* so that case folding, trimming, quoting, comparison and line splitting  *)
(* are computed character by character as the code computes them.          *)
(***************************************************************************)
EXTENDS Integers, Sequences, FiniteSets, TLC

(***************************************************************************)
(* Bounds of the model.                                                    *)
(***************************************************************************)
\* Longest list of tables drawn for an input model of the differ.
MaxTables == 2
\* Longest list of views / routines / triggers drawn for an input model.
MaxObjects == 2

(***************************************************************************)
(* Strings.                                                                *)
(***************************************************************************)
Chars(s) == [i \in 1..Len(s) |-> SubSeq(s, i, i)]

\* The grave accent (code 96), which a TLA+ string literal cannot hold.
Backtick == "<grave>"

\* The printable ASCII characters in code order, from code 32 (space).
Ascii ==
  Chars(" !\"#$%&'()*+,-./0123456789:;<=>?@ABCDEFGHIJKLMNOPQRSTUVWXYZ[\\]^_")
    \o <<Backtick>> \o Chars("abcdefghijklmnopqrstuvwxyz{|}~")

AsciiSet == {Ascii[i] : i \in 1..Len(Ascii)}

\* The UTF-16 code unit of a character ("\n" is 10, "\t" is 9).
Code(c) ==
  IF c = "\n" THEN 10
  ELSE IF c = "\t" THEN 9
  ELSE 31 + (CHOOSE i \in 1..Len(Ascii) : Ascii[i] = c)

CodeOf == [c \in AsciiSet \cup {"\n", "\t"} |-> Code(c)]

\* String.prototype.toLowerCase / toUpperCase on one character.
lowerChar(c) ==
  IF c \in AsciiSet /\ CodeOf[c] >= 65 /\ CodeOf[c] <= 90 THEN Ascii[CodeOf[c] - 31 + 32] ELSE c

upperChar(c) ==
  IF c \in AsciiSet /\ CodeOf[c] >= 97 /\ CodeOf[c] <= 122 THEN Ascii[CodeOf[c] - 31 - 32] ELSE c

toLowerCase(s) == [i \in 1..Len(s) |-> lowerChar(s[i])]

toUpperCase(s) == [i \in 1..Len(s) |-> upperChar(s[i])]

\* The characters matched by \s and removed by trim().
IsSpace(c) == c \in {" ", "\n", "\t"}

RECURSIVE trimStart(_)
trimStart(s) == IF s # <<>> /\ IsSpace(Head(s)) THEN trimStart(Tail(s)) ELSE s

RECURSIVE trimEnd(_)
trimEnd(s) ==
  IF s # <<>> /\ IsSpace(s[Len(s)]) THEN trimEnd(SubSeq(s, 1, Len(s) - 1)) ELSE s

\* String.prototype.trim
trim(s) == trimEnd(trimStart(s))

startsWith(s, p) == Len(s) >= Len(p) /\ SubSeq(s, 1, Len(p)) = p

endsWith(s, p) == Len(s) >= Len(p) /\ SubSeq(s, Len(s) - Len(p) + 1, Len(s)) = p

\* The relational operator < of JavaScript on two strings: code units,
\* lexicographically.
RECURSIVE StrLess(_, _)
StrLess(s, t) ==
  IF t = <<>> THEN FALSE
  ELSE IF s = <<>> THEN TRUE
  ELSE IF Head(s) = Head(t) THEN StrLess(Tail(s), Tail(t))
  ELSE CodeOf[Head(s)] < CodeOf[Head(t)]

\* Array.prototype.join
RECURSIVE join(_, _)
join(parts, sep) ==
  IF parts = <<>> THEN <<>>
  ELSE IF Len(parts) = 1 THEN parts[1]
  ELSE parts[1] \o sep \o join(Tail(parts), sep)

\* Array.prototype.filter, by a predicate given as the set of kept indices.
RECURSIVE SelectIdx(_, _, _)
SelectIdx(seq, keep, i) ==
  IF i > Len(seq) THEN <<>>
  ELSE (IF i \in keep THEN <<seq[i]>> ELSE <<>>) \o SelectIdx(seq, keep, i + 1)

\* The absent value of an optional property, and the null value.  Both
\* are sequences that no string equals: a string holds only one-character
\* elements.
Undef == <<"~undefined">>
Null == <<"~null">>

\* value == null in JavaScript: true of null and of undefined.
IsNullish(v) == v = Undef \/ v = Null

\* value ?? other
Coalesce(v, other) == IF IsNullish(v) THEN other ELSE v

(***************************************************************************)
(* lodash sortBy: a stable sort, ascending by the key of each element.     *)
(* keys[i] is the iteratee's value for seq[i].                             *)
(***************************************************************************)
RECURSIVE InsertByKey(_, _)
InsertByKey(sorted, e) ==
  \* e goes after every element whose key is not greater than its own
  IF sorted = <<>> THEN <<e>>
  ELSE IF StrLess(e.key, Head(sorted).key) THEN <<e>> \o sorted
  ELSE <<Head(sorted)>> \o InsertByKey(Tail(sorted), e)

RECURSIVE SortPairs(_)
SortPairs(pairs) ==
  IF pairs = <<>> THEN <<>>
  ELSE InsertByKey(SortPairs(SubSeq(pairs, 1, Len(pairs) - 1)), pairs[Len(pairs)])

Items(sorted) == [i \in 1..Len(sorted) |-> sorted[i].item]

sortBy(seq, keys) ==
  Items(SortPairs([i \in 1..Len(seq) |-> [key |-> keys[i], item |-> seq[i]]]))

(***************************************************************************)
(* The schema model (types.ts).  An optional string property holds Undef   *)
(* when absent; an optional number or object is a sequence of no or one    *)
(* element.                                                                *)
(***************************************************************************)
Column(name, dataType, length, nullable, default, generated, collation) ==
  [name |-> name, dataType |-> dataType, length |-> length, precisionScale |-> <<>>,
   nullable |-> nullable, default |-> default, generated |-> generated,
   collation |-> collation]

Index(name, unique, columns, using) ==
  [name |-> name, unique |-> unique, columns |-> columns, using |-> using]

ForeignKey(name, columns, refTable, refColumns, onUpdate, onDelete) ==
  [name |-> name, columns |-> columns, refTable |-> refTable, refColumns |-> refColumns,
   onUpdate |-> onUpdate, onDelete |-> onDelete]

Check(name, expression) == [name |-> name, expression |-> expression]

PrimaryKey(name, columns) == [name |-> name, columns |-> columns]

Table(name, columns, primaryKey, indexes, checks, fks) ==
  [name |-> name, columns |-> columns, primaryKey |-> primaryKey, indexes |-> indexes,
   checks |-> checks, fks |-> fks]

View(name, definition) == [name |-> name, definition |-> definition]

Routine(name, kind, definition) ==
  [name |-> name, kind |-> kind, language |-> Undef, definition |-> definition]

Trigger(name, table, timing, events, definition) ==
  [name |-> name, table |-> table, timing |-> timing, events |-> events,
   definition |-> definition]

SchemaModel(tables, views, routines, triggers) ==
  [tables |-> tables, views |-> views, routines |-> routines, triggers |-> triggers]

\* NormalizationOptions: nameCase is absent (<<>>) or one record
\* [strategy, ignore]; mapTypes is a list of [key, value] entries.
NormalizationOptions(nameCase, normalizeDefaults, mapTypes) ==
  [nameCase |-> nameCase, normalizeDefaults |-> normalizeDefaults, mapTypes |-> mapTypes]

(***************************************************************************)
(* The normalizer.                                                         *)
(***************************************************************************)
DEFAULT_TYPE_MAPPINGS ==
  << [key |-> Chars("double precision"), value |-> Chars("double")],
     [key |-> Chars("character varying"), value |-> Chars("varchar")],
     [key |-> Chars("timestamp without time zone"), value |-> Chars("timestamp")],
     [key |-> Chars("timestamp with time zone"), value |-> Chars("timestamptz")],
     [key |-> Chars("integer"), value |-> Chars("int")],
     [key |-> Chars("int4"), value |-> Chars("int")],
     [key |-> Chars("int8"), value |-> Chars("bigint")],
     [key |-> Chars("int2"), value |-> Chars("smallint")],
     [key |-> Chars("tinyint(1)"), value |-> Chars("boolean")],
     [key |-> Chars("bool"), value |-> Chars("boolean")],
     [key |-> Chars("bit(1)"), value |-> Chars("boolean")] >>

\* mapper[key] of an object built by spreading: the last entry of the key
\* wins; Undef when the object has no such key.
Lookup(mapper, key) ==
  LET hits == {i \in 1..Len(mapper) : mapper[i].key = key}
  IN IF hits = {} THEN Undef
     ELSE mapper[CHOOSE i \in hits : \A j \in hits : j <= i].value

\* value.replace(/\s+/g, ' '): every run of white space becomes one space.
RECURSIVE collapseSpaces(_)
collapseSpaces(s) ==
  IF s = <<>> THEN <<>>
  ELSE IF IsSpace(Head(s))
    THEN <<" ">> \o collapseSpaces(trimStart(s))
    ELSE <<Head(s)>> \o collapseSpaces(Tail(s))

normalizeExpression(expression) == trim(collapseSpaces(expression))

normalizeName(value, options) ==
  IF options.nameCase = <<>> THEN value
  ELSE LET nameCase == options.nameCase[1]
       IN IF \E i \in 1..Len(nameCase.ignore) : nameCase.ignore[i] = value THEN value
          ELSE IF nameCase.strategy = "lower" THEN toLowerCase(value)
          ELSE IF nameCase.strategy = "upper" THEN toUpperCase(value)
          ELSE value

\* The while loop of normalizeDefault: strip one pair of wrapping
\* parentheses at a time, stopping when the inside is empty.
RECURSIVE stripParens(_)
stripParens(normalized) ==
  IF startsWith(normalized, <<"(">>) /\ endsWith(normalized, <<")">>)
    THEN LET inner == trim(SubSeq(normalized, 2, Len(normalized) - 1))
         IN IF inner = <<>> THEN normalized ELSE stripParens(inner)
    ELSE normalized

normalizeDefault(value) ==
  IF IsNullish(value) THEN value
  ELSE LET trimmed == trim(value)
       IN IF trimmed = <<>> THEN value
          ELSE LET normalized == stripParens(trimmed)
               IN IF toLowerCase(normalized) = Chars("now()")
                    THEN Chars("CURRENT_TIMESTAMP")
                    ELSE normalized

\* value?.toLowerCase(): undefined when the value is null or undefined.
OptLower(v) == IF IsNullish(v) THEN Undef ELSE toLowerCase(v)

OptUpper(v) == IF IsNullish(v) THEN Undef ELSE toUpperCase(v)

\* normalizeColumn with a type that the mapper does not hold kept as it
\* is written.
normalizeColumnKeepsCase(column, mapper, options) ==
  LET mapped == Lookup(mapper, toLowerCase(column.dataType))
      normalizedType == Coalesce(mapped, column.dataType)
      normalizedDefault ==
        IF options.normalizeDefaults THEN normalizeDefault(column.default)
        ELSE column.default
  IN [column EXCEPT !.name = normalizeName(column.name, options),
                    !.dataType = normalizedType,
                    !.default = normalizedDefault,
                    !.generated = Coalesce(column.generated, Null),
                    !.collation = Coalesce(column.collation, Null)]

normalizeColumn(column, mapper, options) ==
  LET mapped == Lookup(mapper, toLowerCase(column.dataType))
      normalizedType == Coalesce(mapped, toLowerCase(column.dataType))
      normalizedDefault ==
        IF options.normalizeDefaults THEN normalizeDefault(column.default)
        ELSE column.default
  IN [column EXCEPT !.name = normalizeName(column.name, options),
                    !.dataType = normalizedType,
                    !.default = normalizedDefault,
                    !.generated = Coalesce(column.generated, Null),
                    !.collation = Coalesce(column.collation, Null)]

normalizeNames(names, options) ==
  [i \in 1..Len(names) |-> normalizeName(names[i], options)]

normalizeTable(table, mapper, options) ==
  [table EXCEPT
     !.name = normalizeName(table.name, options),
     !.columns = [i \in 1..Len(table.columns) |->
                    normalizeColumn(table.columns[i], mapper, options)],
     !.primaryKey =
        IF table.primaryKey # <<>>
          THEN << [name |-> Coalesce(table.primaryKey[1].name, Null),
                   columns |-> normalizeNames(table.primaryKey[1].columns, options)] >>
          ELSE <<>>,
     !.indexes = [i \in 1..Len(table.indexes) |->
                    [table.indexes[i] EXCEPT
                       !.name = normalizeName(table.indexes[i].name, options),
                       !.columns = normalizeNames(table.indexes[i].columns, options),
                       !.using = OptLower(table.indexes[i].using)]],
     !.checks = [i \in 1..Len(table.checks) |->
                    [table.checks[i] EXCEPT
                       !.name = normalizeName(table.checks[i].name, options),
                       !.expression = normalizeExpression(table.checks[i].expression)]],
     !.fks = [i \in 1..Len(table.fks) |->
                    [table.fks[i] EXCEPT
                       !.name = normalizeName(table.fks[i].name, options),
                       !.columns = normalizeNames(table.fks[i].columns, options),
                       !.refTable = normalizeName(table.fks[i].refTable, options),
                       !.refColumns = normalizeNames(table.fks[i].refColumns, options),
                       !.onDelete = OptUpper(table.fks[i].onDelete),
                       !.onUpdate = OptUpper(table.fks[i].onUpdate)]]]

normalizeSchemaModel(model, options) ==
  LET mapper == DEFAULT_TYPE_MAPPINGS \o options.mapTypes
  IN [tables |-> [i \in 1..Len(model.tables) |->
                    normalizeTable(model.tables[i], mapper, options)],
      views |-> sortBy(model.views,
                  [i \in 1..Len(model.views) |-> toLowerCase(model.views[i].name)]),
      routines |-> sortBy(model.routines,
                  [i \in 1..Len(model.routines) |-> toLowerCase(model.routines[i].name)]),
      triggers |-> sortBy(model.triggers,
                  [i \in 1..Len(model.triggers) |->
                     toLowerCase(model.triggers[i].table \o <<".">>
                                   \o model.triggers[i].name)])]

(***************************************************************************)
(* The differ: the comparators of one table (tableComparators.ts).         *)
(***************************************************************************)
Names(seq) == [i \in 1..Len(seq) |-> seq[i].name]

\* sortBy(list, (item) => item.name)
sortByName(list) == sortBy(list, Names(list))

\* new Map(entries).has(key), the entries being (keys[i], seq[i]).
MapHas(keys, key) == \E i \in 1..Len(keys) : keys[i] = key

\* new Map(entries).get(key): the value set last under the key.
MapGet(seq, keys, key) ==
  seq[CHOOSE i \in 1..Len(keys) :
        keys[i] = key /\ \A j \in 1..Len(keys) : keys[j] = key => j <= i]

\* The elements of seq, in order, whose key the other side does not hold.
OnlyIn(seq, keys, otherKeys) ==
  SelectIdx(seq, {i \in 1..Len(seq) : ~MapHas(otherKeys, keys[i])}, 1)

\* The changed list of a comparator before it is sorted: found[i] is the
\* envelope pushed for the i-th element of the source, if one is pushed.
RECURSIVE Envelopes(_)
Envelopes(found) ==
  IF found = <<>> THEN <<>> ELSE Head(found) \o Envelopes(Tail(found))

\* A change of one attribute: absent, or one {from, to}.
NoChange == <<>>
FromTo(from, to) == <<[from |-> from, to |-> to]>>

\* changeOrNull with the change returned even when it has no entry.
changeAlways(change) == <<change>>

\* Object.keys(change).length > 0 ? change : null
changeOrNull(change) ==
  IF \E f \in DOMAIN change : change[f] # NoChange THEN <<change>> ELSE <<>>

\* diffColumn with the default of the source compared as it is read, the
\* "?? null" left out on that side.
diffColumnRawDefault(source, target) ==
  changeOrNull(
    [typeChanged |->
       IF source.dataType # target.dataType
         THEN FromTo(source.dataType, target.dataType) ELSE NoChange,
     nullableChanged |->
       IF source.nullable # target.nullable
         THEN FromTo(source.nullable, target.nullable) ELSE NoChange,
     defaultChanged |->
       IF source.default # Coalesce(target.default, Null)
         THEN FromTo(source.default, target.default) ELSE NoChange,
     generatedChanged |->
       IF Coalesce(source.generated, Null) # Coalesce(target.generated, Null)
         THEN FromTo(Coalesce(source.generated, Null), Coalesce(target.generated, Null))
         ELSE NoChange,
     collationChanged |->
       IF Coalesce(source.collation, Null) # Coalesce(target.collation, Null)
         THEN FromTo(Coalesce(source.collation, Null), Coalesce(target.collation, Null))
         ELSE NoChange])

diffColumn(source, target) ==
  changeOrNull(
    [typeChanged |->
       IF source.dataType # target.dataType
         THEN FromTo(source.dataType, target.dataType) ELSE NoChange,
     nullableChanged |->
       IF source.nullable # target.nullable
         THEN FromTo(source.nullable, target.nullable) ELSE NoChange,
     defaultChanged |->
       IF Coalesce(source.default, Null) # Coalesce(target.default, Null)
         THEN FromTo(source.default, target.default) ELSE NoChange,
     generatedChanged |->
       IF Coalesce(source.generated, Null) # Coalesce(target.generated, Null)
         THEN FromTo(Coalesce(source.generated, Null), Coalesce(target.generated, Null))
         ELSE NoChange,
     collationChanged |->
       IF Coalesce(source.collation, Null) # Coalesce(target.collation, Null)
         THEN FromTo(Coalesce(source.collation, Null), Coalesce(target.collation, Null))
         ELSE NoChange])

\* The envelope of one changed element, when there is a change.
envelope(name, change) ==
  IF change # <<>> THEN <<[name |-> name, change |-> change[1]]>> ELSE <<>>

compareColumnLists(source, sk, target, tk) ==
  [added |-> sortByName(OnlyIn(target, tk, sk)),
   removed |-> sortByName(OnlyIn(source, sk, tk)),
   changed |-> sortByName(Envelopes(
     [i \in 1..Len(sk) |->
        IF ~MapHas(tk, sk[i]) THEN <<>>
        ELSE envelope(sk[i], diffColumn(source[i], MapGet(target, tk, sk[i])))]))]

compareColumns(source, target) ==
  compareColumnLists(source.columns, Names(source.columns),
                     target.columns, Names(target.columns))

\* sortBy(list) of a list of strings: each string is its own key.
sortStrings(list) == sortBy(list, list)

\* comparePrimaryKeys with the columns compared in the order they are
\* listed, the sortBy left out.
comparePrimaryKeysInOrder(source, target) ==
  IF source = <<>> /\ target = <<>> THEN <<>>
  ELSE IF source = <<>> THEN <<[from |-> <<>>, to |-> target]>>
  ELSE IF target = <<>> THEN <<[from |-> source, to |-> <<>>]>>
  ELSE IF source[1].columns # target[1].columns
    THEN <<[from |-> source, to |-> target]>>
  ELSE <<>>

comparePrimaryKeys(source, target) ==
  IF source = <<>> /\ target = <<>> THEN <<>>
  ELSE IF source = <<>> THEN <<[from |-> <<>>, to |-> target]>>
  ELSE IF target = <<>> THEN <<[from |-> source, to |-> <<>>]>>
  ELSE IF sortStrings(source[1].columns) # sortStrings(target[1].columns)
    THEN <<[from |-> source, to |-> target]>>
  ELSE <<>>

\* normalizeIndex with the columns lower-cased but left in their order.
normalizeIndexInOrder(index) ==
  [unique |-> index.unique,
   using |-> Coalesce(OptLower(index.using), Null),
   columns |-> [i \in 1..Len(index.columns) |-> toLowerCase(index.columns[i])]]

normalizeIndex(index) ==
  [unique |-> index.unique,
   using |-> Coalesce(OptLower(index.using), Null),
   columns |-> sortStrings([i \in 1..Len(index.columns) |-> toLowerCase(index.columns[i])])]

\* The envelope {name, change: {from, to}} pushed when the two differ.
fromToEnvelope(name, differ, from, to) ==
  IF differ THEN <<[name |-> name, change |-> [from |-> from, to |-> to]]>> ELSE <<>>

indexChange(index, targetIndex) ==
  fromToEnvelope(index.name, normalizeIndex(index) # normalizeIndex(targetIndex),
                 index, targetIndex)

compareIndexLists(source, sk, target, tk) ==
  [added |-> sortByName(OnlyIn(target, tk, sk)),
   removed |-> sortByName(OnlyIn(source, sk, tk)),
   changed |-> sortByName(Envelopes(
     [i \in 1..Len(sk) |->
        IF ~MapHas(tk, sk[i]) THEN <<>>
        ELSE indexChange(source[i], MapGet(target, tk, sk[i]))]))]

compareIndexes(source, target) ==
  compareIndexLists(source, Names(source), target, Names(target))

checkChange(check, targetCheck) ==
  fromToEnvelope(check.name,
                 normalizeExpression(check.expression)
                   # normalizeExpression(targetCheck.expression),
                 check, targetCheck)

compareCheckLists(source, sk, target, tk) ==
  [added |-> sortByName(OnlyIn(target, tk, sk)),
   removed |-> sortByName(OnlyIn(source, sk, tk)),
   changed |-> sortByName(Envelopes(
     [i \in 1..Len(sk) |->
        IF ~MapHas(tk, sk[i]) THEN <<>>
        ELSE checkChange(source[i], MapGet(target, tk, sk[i]))]))]

compareChecks(source, target) ==
  compareCheckLists(source, Names(source), target, Names(target))

\* normalizeForeignKey with the two actions taken as they are written.
normalizeForeignKeyActionsAsWritten(fk) ==
  [columns |-> sortStrings([i \in 1..Len(fk.columns) |-> toLowerCase(fk.columns[i])]),
   refTable |-> toLowerCase(fk.refTable),
   refColumns |->
     sortStrings([i \in 1..Len(fk.refColumns) |-> toLowerCase(fk.refColumns[i])]),
   onUpdate |-> Coalesce(fk.onUpdate, Null),
   onDelete |-> Coalesce(fk.onDelete, Null)]

normalizeForeignKey(fk) ==
  [columns |-> sortStrings([i \in 1..Len(fk.columns) |-> toLowerCase(fk.columns[i])]),
   refTable |-> toLowerCase(fk.refTable),
   refColumns |->
     sortStrings([i \in 1..Len(fk.refColumns) |-> toLowerCase(fk.refColumns[i])]),
   onUpdate |-> Coalesce(OptUpper(fk.onUpdate), Null),
   onDelete |-> Coalesce(OptUpper(fk.onDelete), Null)]

foreignKeyChange(fk, targetFk) ==
  fromToEnvelope(fk.name, normalizeForeignKey(fk) # normalizeForeignKey(targetFk),
                 fk, targetFk)

compareForeignKeyLists(source, sk, target, tk) ==
  [added |-> sortByName(OnlyIn(target, tk, sk)),
   removed |-> sortByName(OnlyIn(source, sk, tk)),
   changed |-> sortByName(Envelopes(
     [i \in 1..Len(sk) |->
        IF ~MapHas(tk, sk[i]) THEN <<>>
        ELSE foreignKeyChange(source[i], MapGet(target, tk, sk[i]))]))]

compareForeignKeys(source, target) ==
  compareForeignKeyLists(source, Names(source), target, Names(target))

(***************************************************************************)
(* The differ: tables and the keyed collections (diff/index.ts).           *)
(***************************************************************************)
\* The second half of diffTable: no element when nothing differs (null),
\* else the one TableChange.
tableChange(source, target, cols, primaryKeyChange, idx, chk, fk) ==
  LET hasChanges ==
        \/ Len(cols.added) > 0 \/ Len(cols.removed) > 0 \/ Len(cols.changed) > 0
        \/ primaryKeyChange # <<>>
        \/ Len(idx.added) > 0 \/ Len(idx.removed) > 0 \/ Len(idx.changed) > 0
        \/ Len(chk.added) > 0 \/ Len(chk.removed) > 0 \/ Len(chk.changed) > 0
        \/ Len(fk.added) > 0 \/ Len(fk.removed) > 0 \/ Len(fk.changed) > 0
  IN IF ~hasChanges THEN <<>>
     ELSE << [table |-> target,
              sourceTable |-> source,
              addedColumns |-> cols.added,
              removedColumns |-> cols.removed,
              columnChanges |-> cols.changed,
              primaryKeyChange |-> primaryKeyChange,
              addedIndexes |-> idx.added,
              removedIndexes |-> idx.removed,
              indexChanges |-> idx.changed,
              addedChecks |-> chk.added,
              removedChecks |-> chk.removed,
              checkChanges |-> chk.changed,
              addedForeignKeys |-> fk.added,
              removedForeignKeys |-> fk.removed,
              foreignKeyChanges |-> fk.changed] >>

diffTable(source, target) ==
  tableChange(source, target,
              compareColumns(source, target),
              comparePrimaryKeys(source.primaryKey, target.primaryKey),
              compareIndexes(source.indexes, target.indexes),
              compareChecks(source.checks, target.checks),
              compareForeignKeys(source.fks, target.fks))

\* sortBy(changed, (change) => change.table.name)
sortTableChanges(changed) ==
  sortBy(changed, [i \in 1..Len(changed) |-> changed[i].table.name])

\* diffTableLists with the second loop testing sourceMap, as the first
\* does: no table is ever found removed.
diffTableListsOneMap(source, sk, target, tk) ==
  [added |-> OnlyIn(target, tk, sk),
   removed |-> OnlyIn(source, sk, sk),
   changed |-> sortTableChanges(Envelopes(
     [i \in 1..Len(sk) |->
        IF ~MapHas(tk, sk[i]) THEN <<>>
        ELSE diffTable(source[i], MapGet(target, tk, sk[i]))]))]

diffTableLists(source, sk, target, tk) ==
  [added |-> OnlyIn(target, tk, sk),
   removed |-> OnlyIn(source, sk, tk),
   changed |-> sortTableChanges(Envelopes(
     [i \in 1..Len(sk) |->
        IF ~MapHas(tk, sk[i]) THEN <<>>
        ELSE diffTable(source[i], MapGet(target, tk, sk[i]))]))]

diffTables(source, target) == diffTableLists(source, Names(source), target, Names(target))

\* The entries of a Map filled by set(keys[i], seq[i]) for each i, in
\* iteration order: a key keeps the place of its first insertion and
\* holds the value of its last.  vals[i] is valueFn of seq[i].
firstKeys(keys) ==
  SelectIdx(keys, {i \in 1..Len(keys) : \A j \in 1..(i - 1) : keys[j] # keys[i]}, 1)

entriesOf(seq, keys, vals, kept) ==
  [i \in 1..Len(kept) |->
     [key |-> kept[i], item |-> MapGet(seq, keys, kept[i]),
      value |-> MapGet(vals, keys, kept[i])]]

MapEntries(seq, keys, vals) == entriesOf(seq, keys, vals, firstKeys(keys))

Keys(entries) == [i \in 1..Len(entries) |-> entries[i].key]

\* sortBy(list, (item) => keyFn(item)) of the values of map entries.
sortByKey(entries) == Items(SortPairs(entries))

\* isEqual(valueFn(value), valueFn(targetValue)) fails: the envelope.
definitionChange(key, from, to) ==
  IF from # to THEN <<[name |-> key, change |-> [from |-> from, to |-> to]]>> ELSE <<>>

diffMaps(sourceMap, sm, targetMap, tm) ==
  [added |-> sortByKey(OnlyIn(targetMap, tm, sm)),
   removed |-> sortByKey(OnlyIn(sourceMap, sm, tm)),
   changed |-> sortByName(Envelopes(
     [i \in 1..Len(sm) |->
        IF ~MapHas(tm, sm[i]) THEN <<>>
        ELSE definitionChange(sm[i], sourceMap[i].value,
                              MapGet(targetMap, tm, sm[i]).value)]))]

\* diffCollection(source, target, keyFn, valueFn): skeys[i] and svals[i]
\* are keyFn and valueFn of source[i], tkeys and tvals those of target.
diffCollection(source, skeys, svals, target, tkeys, tvals) ==
  diffMaps(MapEntries(source, skeys, svals), firstKeys(skeys),
           MapEntries(target, tkeys, tvals), firstKeys(tkeys))

\* The keys and the compared values of the three keyed collections.
viewKey(item) == item.name
viewValue(item) == item.definition
\* routineKey with the kind left out of the key.
routineKeyByName(item) == item.name
routineKey(item) == item.kind \o <<":">> \o item.name
routineValue(item) == item.definition
triggerKey(item) == item.table \o <<".">> \o item.name
triggerValue(item) ==
  join(<<item.timing, join(item.events, <<",">>), item.definition>>, <<"\n">>)

viewKeys(list) == [i \in 1..Len(list) |-> viewKey(list[i])]
viewValues(list) == [i \in 1..Len(list) |-> viewValue(list[i])]
routineKeys(list) == [i \in 1..Len(list) |-> routineKey(list[i])]
routineValues(list) == [i \in 1..Len(list) |-> routineValue(list[i])]
triggerKeys(list) == [i \in 1..Len(list) |-> triggerKey(list[i])]
triggerValues(list) == [i \in 1..Len(list) |-> triggerValue(list[i])]

computeDiff(a, b) ==
  [tables |-> diffTables(a.tables, b.tables),
   views |-> diffCollection(a.views, viewKeys(a.views), viewValues(a.views),
                            b.views, viewKeys(b.views), viewValues(b.views)),
   routines |-> diffCollection(a.routines, routineKeys(a.routines), routineValues(a.routines),
                               b.routines, routineKeys(b.routines), routineValues(b.routines)),
   triggers |-> diffCollection(a.triggers, triggerKeys(a.triggers), triggerValues(a.triggers),
                               b.triggers, triggerKeys(b.triggers), triggerValues(b.triggers))]

(***************************************************************************)
(* The DDL generators (generate/index.ts).                                 *)
(***************************************************************************)
\* node:os EOL on the platforms the tool is built for.
EOL == <<"\n">>

\* identifier.replace(/c/g, cc): every occurrence of the character doubled.
RECURSIVE doubleChar(_, _)
doubleChar(s, c) ==
  IF s = <<>> THEN <<>>
  ELSE (IF Head(s) = c THEN <<c, c>> ELSE <<Head(s)>>) \o doubleChar(Tail(s), c)

quoteIdent(identifier) == <<"\"">> \o doubleChar(identifier, "\"") \o <<"\"">>

backtick(identifier) == <<Backtick>> \o doubleChar(identifier, Backtick) \o <<Backtick>>

\* A number in a template literal: its decimal digits.
RECURSIVE numStr(_)
numStr(n) ==
  IF n < 10 THEN <<Ascii[17 + n]>>
  ELSE numStr(n \div 10) \o <<Ascii[17 + (n % 10)]>>

\* cond ? text : ''
When(cond, text) == IF cond THEN text ELSE <<>>

\* Each element of a list mapped to a list of lines, the results in order.
RECURSIVE flatten(_)
flatten(lists) == IF lists = <<>> THEN <<>> ELSE Head(lists) \o flatten(Tail(lists))

\* Array.prototype.find by name; no element when none matches.
findByName(seq, name) ==
  LET hits == {i \in 1..Len(seq) : seq[i].name = name}
  IN IF hits = {} THEN <<>> ELSE <<seq[CHOOSE i \in hits : \A j \in hits : i <= j]>>

GenOptions(direction, withTransaction, safeMode, ifExists, cascade) ==
  [direction |-> direction, withTransaction |-> withTransaction, safeMode |-> safeMode,
   ifExists |-> ifExists, cascade |-> cascade]

\* desiredColumnOf with the find left out: always desired.columns[0].
desiredColumnFirst(desired, found) ==
  IF desired.columns # <<>> THEN <<desired.columns[1]>> ELSE <<>>

\* desired.columns.find((col) => col.name === name) ?? desired.columns[0]
desiredColumnOf(desired, found) ==
  IF found # <<>> THEN found
  ELSE IF desired.columns # <<>> THEN <<desired.columns[1]>> ELSE <<>>

\* The body of the callback of change.columnChanges.map in buildTablePlan.
alteration(name, columnChange, desiredColumn, working) ==
  IF desiredColumn = <<>>
    THEN [column |-> findByName(working.columns, name),
          change |-> << Chars("-- TODO: review column ") \o name >>]
    ELSE
      [column |-> desiredColumn,
       change |->
         When(columnChange.typeChanged # NoChange,
              << Chars("ALTER COLUMN ") \o quoteIdent(name) \o Chars(" TYPE ")
                   \o desiredColumn[1].dataType,
                 Chars("-- TODO: verify casts for ") \o name >>)
         \o When(columnChange.nullableChanged # NoChange,
              << Chars("ALTER COLUMN ") \o quoteIdent(name) \o <<" ">>
                   \o (IF desiredColumn[1].nullable THEN Chars("DROP NOT NULL")
                       ELSE Chars("SET NOT NULL")) >>)
         \o When(columnChange.defaultChanged # NoChange,
              << Chars("ALTER COLUMN ") \o quoteIdent(name) \o <<" ">>
                   \o (IF IsNullish(desiredColumn[1].default) THEN Chars("DROP DEFAULT")
                       ELSE Chars("SET DEFAULT ") \o desiredColumn[1].default) >>)
         \o When(columnChange.generatedChanged # NoChange,
              << Chars("-- TODO: reconcile generation strategy for ") \o name >>)
         \o When(columnChange.collationChanged # NoChange,
              << Chars("-- TODO: adjust collation for ") \o name >>)]

alterColumn(columnChange, desired, working) ==
  alteration(columnChange.name, columnChange.change,
             desiredColumnOf(desired, findByName(desired.columns, columnChange.name)),
             working)

buildTablePlan(change, direction) ==
  LET desired == IF direction = "AtoB" THEN change.sourceTable ELSE change.table
      working == IF direction = "AtoB" THEN change.table ELSE change.sourceTable
  IN [table |-> working,
      desired |-> desired,
      addColumns |-> IF direction = "AtoB" THEN change.removedColumns
                     ELSE change.addedColumns,
      dropColumns |-> IF direction = "AtoB" THEN change.addedColumns
                      ELSE change.removedColumns,
      alterColumns |-> [i \in 1..Len(change.columnChanges) |->
                          alterColumn(change.columnChanges[i], desired, working)],
      dropIndexes |-> IF direction = "AtoB" THEN change.addedIndexes
                      ELSE change.removedIndexes,
      createIndexes |-> IF direction = "AtoB" THEN change.removedIndexes
                        ELSE change.addedIndexes]

\* planTables with the direction ignored: the roles of AtoB whatever
\* opts.direction says.
planTablesOneWay(diff, opts) ==
  [toCreate |-> diff.tables.removed,
   toDrop |-> diff.tables.added,
   tablePlans |-> [i \in 1..Len(diff.tables.changed) |->
                     buildTablePlan(diff.tables.changed[i], "AtoB")]]

planTables(diff, opts) ==
  [toCreate |-> IF opts.direction = "AtoB" THEN diff.tables.removed ELSE diff.tables.added,
   toDrop |-> IF opts.direction = "AtoB" THEN diff.tables.added ELSE diff.tables.removed,
   tablePlans |-> [i \in 1..Len(diff.tables.changed) |->
                     buildTablePlan(diff.tables.changed[i], opts.direction)]]

\* if (column.length): a number that is present and not zero.
Truthy(num) == num # <<>> /\ num[1] # 0

columnType(dataType, column) ==
  IF column.precisionScale # <<>>
    THEN dataType \o <<"(">> \o numStr(column.precisionScale[1].precision) \o Chars(", ")
           \o numStr(column.precisionScale[1].scale) \o <<")">>
  ELSE IF Truthy(column.length)
    THEN dataType \o <<"(">> \o numStr(column.length[1]) \o <<")">>
  ELSE dataType

\* if (column.collation): a string that is present and not empty.
TruthyStr(s) == ~IsNullish(s) /\ s # <<>>

renderPostgresColumn(column) ==
  join(<< quoteIdent(column.name), columnType(column.dataType, column) >>
         \o When(~column.nullable, << Chars("NOT NULL") >>)
         \o When(~IsNullish(column.default), << Chars("DEFAULT ") \o column.default >>)
         \o When(column.generated = Chars("identity") \/ column.generated = Chars("sequence"),
                 << Chars("-- TODO: ensure generation strategy is preserved") >>)
         \o When(TruthyStr(column.collation),
                 << Chars("COLLATE ") \o quoteIdent(column.collation) >>),
       <<" ">>)

renderMariaColumn(column) ==
  join(<< backtick(column.name), columnType(toUpperCase(column.dataType), column) >>
         \o When(~column.nullable, << Chars("NOT NULL") >>)
         \o When(~IsNullish(column.default), << Chars("DEFAULT ") \o column.default >>)
         \o When(column.generated = Chars("auto_increment"), << Chars("AUTO_INCREMENT") >>)
         \o When(TruthyStr(column.collation), << Chars("COLLATE ") \o column.collation >>),
       <<" ">>)

renderPostgresCreateTable(table) ==
  LET columns ==
        [i \in 1..Len(table.columns) |-> renderPostgresColumn(table.columns[i])]
        \o When(table.primaryKey # <<>>,
             << Chars("CONSTRAINT ")
                  \o quoteIdent(Coalesce(table.primaryKey[1].name, table.name \o Chars("_pkey")))
                  \o Chars(" PRIMARY KEY (")
                  \o join([i \in 1..Len(table.primaryKey[1].columns) |->
                             quoteIdent(table.primaryKey[1].columns[i])], Chars(", "))
                  \o <<")">> >>)
  IN Chars("CREATE TABLE ") \o quoteIdent(table.name) \o Chars(" (\n  ")
       \o join(columns, Chars(",\n  ")) \o Chars("\n);")

renderMariaCreateTable(table) ==
  LET columns ==
        [i \in 1..Len(table.columns) |-> renderMariaColumn(table.columns[i])]
        \o When(table.primaryKey # <<>>,
             << Chars("CONSTRAINT ")
                  \o backtick(Coalesce(table.primaryKey[1].name, table.name \o Chars("_pk")))
                  \o Chars(" PRIMARY KEY (")
                  \o join([i \in 1..Len(table.primaryKey[1].columns) |->
                             backtick(table.primaryKey[1].columns[i])], Chars(", "))
                  \o <<")">> >>)
  IN Chars("CREATE TABLE ") \o backtick(table.name) \o Chars(" (\n  ")
       \o join(columns, Chars(",\n  ")) \o Chars("\n) ENGINE=InnoDB;")

renderPostgresIndex(tableName, index) ==
  Chars("CREATE") \o When(index.unique, Chars(" UNIQUE")) \o Chars(" INDEX ")
    \o quoteIdent(index.name) \o Chars(" ON ") \o quoteIdent(tableName)
    \o When(TruthyStr(index.using), Chars(" USING ") \o index.using)
    \o Chars(" (")
    \o join([i \in 1..Len(index.columns) |-> quoteIdent(index.columns[i])], Chars(", "))
    \o Chars(");")

renderMariaIndex(tableName, index) ==
  Chars("CREATE ") \o When(index.unique, Chars("UNIQUE ")) \o Chars("INDEX ")
    \o backtick(index.name) \o Chars(" ON ") \o backtick(tableName) \o Chars(" (")
    \o join([i \in 1..Len(index.columns) |-> backtick(index.columns[i])], Chars(", "))
    \o Chars(");")

\* lines.push(opts.safeMode ? `-- ${drop}` : drop)
safeLine(opts, drop) == IF opts.safeMode THEN Chars("-- ") \o drop ELSE drop

identFor(dialect, name) == IF dialect = "postgres" THEN quoteIdent(name) ELSE backtick(name)

\* renderViewChanges with the direction ignored: the roles of AtoB
\* whatever opts.direction says.
renderViewChangesOneWay(diff, opts, dialect) ==
  [i \in 1..Len(diff.views.added) |->
     safeLine(opts, Chars("DROP VIEW") \o When(opts.ifExists, Chars(" IF EXISTS"))
                      \o <<" ">> \o identFor(dialect, diff.views.added[i].name)
                      \o When(opts.cascade, Chars(" CASCADE")) \o <<";">>)]
  \o [i \in 1..Len(diff.views.removed) |->
     Chars("CREATE OR REPLACE VIEW ") \o identFor(dialect, diff.views.removed[i].name)
       \o Chars(" AS\n") \o trim(diff.views.removed[i].definition) \o <<";">>]
  \o [i \in 1..Len(diff.views.changed) |->
     Chars("-- TODO: view ") \o diff.views.changed[i].name
       \o Chars(" changed; consider drop and recreate.")]

renderViewChanges(diff, opts, dialect) ==
  LET createViews == IF opts.direction = "AtoB" THEN diff.views.removed ELSE diff.views.added
      dropViews == IF opts.direction = "AtoB" THEN diff.views.added ELSE diff.views.removed
  IN [i \in 1..Len(dropViews) |->
        safeLine(opts, Chars("DROP VIEW") \o When(opts.ifExists, Chars(" IF EXISTS"))
                         \o <<" ">> \o identFor(dialect, dropViews[i].name)
                         \o When(opts.cascade, Chars(" CASCADE")) \o <<";">>)]
     \o [i \in 1..Len(createViews) |->
        Chars("CREATE OR REPLACE VIEW ") \o identFor(dialect, createViews[i].name)
          \o Chars(" AS\n") \o trim(createViews[i].definition) \o <<";">>]
     \o [i \in 1..Len(diff.views.changed) |->
        Chars("-- TODO: view ") \o diff.views.changed[i].name
          \o Chars(" changed; consider drop and recreate.")]

renderRoutineChanges(diff, opts, dialect) ==
  LET createRoutines ==
        IF opts.direction = "AtoB" THEN diff.routines.removed ELSE diff.routines.added
      dropRoutines ==
        IF opts.direction = "AtoB" THEN diff.routines.added ELSE diff.routines.removed
  IN [i \in 1..Len(dropRoutines) |->
        safeLine(opts, Chars("DROP ") \o toUpperCase(dropRoutines[i].kind)
                         \o When(opts.ifExists, Chars(" IF EXISTS")) \o <<" ">>
                         \o identFor(dialect, dropRoutines[i].name) \o <<";">>)]
     \o flatten([i \in 1..Len(createRoutines) |->
          << Chars("-- Routine ") \o createRoutines[i].name,
             trim(createRoutines[i].definition) >>])
     \o [i \in 1..Len(diff.routines.changed) |->
        Chars("-- TODO: routine ") \o diff.routines.changed[i].name
          \o Chars(" definition changed; drop and recreate manually.")]

renderTriggerChanges(diff, opts, dialect) ==
  LET createTriggers ==
        IF opts.direction = "AtoB" THEN diff.triggers.removed ELSE diff.triggers.added
      dropTriggers ==
        IF opts.direction = "AtoB" THEN diff.triggers.added ELSE diff.triggers.removed
  IN [i \in 1..Len(dropTriggers) |->
        safeLine(opts, Chars("DROP TRIGGER") \o When(opts.ifExists, Chars(" IF EXISTS"))
                         \o <<" ">> \o identFor(dialect, dropTriggers[i].name)
                         \o Chars(" ON ") \o identFor(dialect, dropTriggers[i].table)
                         \o <<";">>)]
     \o flatten([i \in 1..Len(createTriggers) |->
          << Chars("-- Trigger ") \o createTriggers[i].name \o Chars(" on ")
               \o createTriggers[i].table,
             trim(createTriggers[i].definition) >>])
     \o [i \in 1..Len(diff.triggers.changed) |->
        Chars("-- TODO: trigger ") \o diff.triggers.changed[i].name
          \o Chars(" changed; consider drop and recreate.")]

\* The lines one changed table contributes to the PostgreSQL script.
postgresPlanLines(plan, opts) ==
  LET tableName == quoteIdent(plan.table.name)
  IN [i \in 1..Len(plan.dropColumns) |->
        safeLine(opts, Chars("ALTER TABLE ") \o tableName \o Chars(" DROP COLUMN ")
                         \o quoteIdent(plan.dropColumns[i].name)
                         \o When(opts.cascade, Chars(" CASCADE")) \o <<";">>)]
     \o [i \in 1..Len(plan.addColumns) |->
        Chars("ALTER TABLE ") \o tableName \o Chars(" ADD COLUMN ")
          \o renderPostgresColumn(plan.addColumns[i]) \o <<";">>]
     \o flatten([i \in 1..Len(plan.alterColumns) |->
          [j \in 1..Len(plan.alterColumns[i].change) |->
             Chars("ALTER TABLE ") \o tableName \o <<" ">>
               \o plan.alterColumns[i].change[j] \o <<";">>]])
     \o [i \in 1..Len(plan.dropIndexes) |->
        safeLine(opts, Chars("DROP INDEX") \o When(opts.ifExists, Chars(" IF EXISTS"))
                         \o <<" ">> \o quoteIdent(plan.dropIndexes[i].name) \o <<";">>)]
     \o [i \in 1..Len(plan.createIndexes) |->
        renderPostgresIndex(plan.table.name, plan.createIndexes[i])]

\* The lines one changed table contributes to the MariaDB script.
mariaPlanLines(plan, opts) ==
  LET tableName == backtick(plan.table.name)
  IN [i \in 1..Len(plan.dropColumns) |->
        safeLine(opts, Chars("ALTER TABLE ") \o tableName \o Chars(" DROP COLUMN ")
                         \o backtick(plan.dropColumns[i].name) \o <<";">>)]
     \o [i \in 1..Len(plan.addColumns) |->
        Chars("ALTER TABLE ") \o tableName \o Chars(" ADD COLUMN ")
          \o renderMariaColumn(plan.addColumns[i]) \o <<";">>]
     \o flatten([i \in 1..Len(plan.alterColumns) |->
          [j \in 1..Len(plan.alterColumns[i].change) |->
             Chars("ALTER TABLE ") \o tableName \o <<" ">>
               \o plan.alterColumns[i].change[j] \o <<";">>]])
     \o [i \in 1..Len(plan.dropIndexes) |->
        safeLine(opts, Chars("DROP INDEX ") \o backtick(plan.dropIndexes[i].name)
                         \o Chars(" ON ") \o tableName \o <<";">>)]
     \o [i \in 1..Len(plan.createIndexes) |->
        renderMariaIndex(plan.table.name, plan.createIndexes[i])]

\* The array lines of toPostgres, as pushed, before it is filtered.
postgresScript(plan, diff, opts) ==
     When(opts.withTransaction, << Chars("BEGIN;") >>)
     \o When(opts.safeMode /\ Len(plan.toDrop) > 0,
             << Chars("-- SAFE MODE: review drops below before executing.") >>)
     \o [i \in 1..Len(plan.toDrop) |->
        safeLine(opts, Chars("DROP TABLE") \o When(opts.ifExists, Chars(" IF EXISTS"))
                         \o <<" ">> \o quoteIdent(plan.toDrop[i].name)
                         \o When(opts.cascade, Chars(" CASCADE")) \o <<";">>)]
     \o [i \in 1..Len(plan.toCreate) |-> renderPostgresCreateTable(plan.toCreate[i])]
     \o flatten([i \in 1..Len(plan.tablePlans) |->
                   postgresPlanLines(plan.tablePlans[i], opts)])
     \o renderViewChanges(diff, opts, "postgres")
     \o renderRoutineChanges(diff, opts, "postgres")
     \o renderTriggerChanges(diff, opts, "postgres")
     \o When(opts.withTransaction, << Chars("COMMIT;") >>)

\* The array lines of toMariaDB, as pushed, before it is filtered.
mariaScript(plan, diff, opts) ==
     When(opts.withTransaction, << Chars("START TRANSACTION;") >>)
     \o When(opts.safeMode /\ Len(plan.toDrop) > 0,
             << Chars("-- SAFE MODE: review drops below before executing.") >>)
     \o [i \in 1..Len(plan.toDrop) |->
        safeLine(opts, Chars("DROP TABLE") \o When(opts.ifExists, Chars(" IF EXISTS"))
                         \o <<" ">> \o backtick(plan.toDrop[i].name)
                         \o When(opts.cascade, Chars(" CASCADE")) \o <<";">>)]
     \o [i \in 1..Len(plan.toCreate) |-> renderMariaCreateTable(plan.toCreate[i])]
     \o flatten([i \in 1..Len(plan.tablePlans) |->
                   mariaPlanLines(plan.tablePlans[i], opts)])
     \o renderViewChanges(diff, opts, "mariadb")
     \o renderRoutineChanges(diff, opts, "mariadb")
     \o renderTriggerChanges(diff, opts, "mariadb")
     \o When(opts.withTransaction, << Chars("COMMIT;") >>)

\* postgresLines with the routine statements pushed before everything else.
postgresLinesRoutinesFirst(diff, opts) ==
  renderRoutineChanges(diff, opts, "postgres")
    \o postgresScript(planTables(diff, opts), diff, opts)

postgresLines(diff, opts) == postgresScript(planTables(diff, opts), diff, opts)

\* mariaLines with the banner under safeMode whether or not a table is
\* dropped.
mariaLinesBannerWithoutTableDrop(diff, opts) ==
  When(opts.safeMode /\ planTables(diff, opts).toDrop = <<>>,
       << Chars("-- SAFE MODE: review drops below before executing.") >>)
    \o mariaScript(planTables(diff, opts), diff, opts)

mariaLines(diff, opts) == mariaScript(planTables(diff, opts), diff, opts)

\* finishScript without the first line pushed.
finishScriptFromSecond(lines) ==
  join(SelectIdx(lines, {i \in 2..Len(lines) : Len(trim(lines[i])) > 0}, 1), EOL \o EOL)

\* lines.filter((line) => line.trim().length > 0).join(EOL + EOL)
finishScript(lines) ==
  join(SelectIdx(lines, {i \in 1..Len(lines) : Len(trim(lines[i])) > 0}, 1), EOL \o EOL)

toPostgres(diff, opts) == finishScript(postgresLines(diff, opts))

toMariaDB(diff, opts) == finishScript(mariaLines(diff, opts))

(***************************************************************************)
(* The inputs the specifications draw from.                                *)
(***************************************************************************)
\* All lists over a pool, up to a length.
ListsUpTo(pool, n) == UNION {[1..k -> pool] : k \in 0..n}

ColId == Column(Chars("id"), Chars("serial"), <<>>, FALSE, Undef, Chars("sequence"), Undef)
ColEmail255 == Column(Chars("email"), Chars("varchar"), <<255>>, FALSE, Undef, Undef, Undef)
ColEmail128 == Column(Chars("email"), Chars("varchar"), <<128>>, FALSE, Undef, Undef, Undef)
ColStatus ==
  Column(Chars("status"), Chars("varchar"), <<32>>, TRUE, Chars("'pending'"), Undef, Undef)
ColAuditId == Column(Chars("id"), Chars("bigint"), <<>>, FALSE, Undef, Chars("sequence"), Undef)
ColPayload == Column(Chars("payload"), Chars("jsonb"), <<>>, TRUE, Undef, Undef, Undef)

UsersPk == <<PrimaryKey(Chars("users_pkey"), <<Chars("id")>>)>>
IdxEmailUnique == Index(Chars("users_email_key"), TRUE, <<Chars("email")>>, Undef)
IdxEmailPlain == Index(Chars("users_email_key"), FALSE, <<Chars("email")>>, Undef)
IdxStatus == Index(Chars("users_status_idx"), FALSE, <<Chars("status")>>, Undef)

\* The table users of the generator tests' source model.
UsersA == Table(Chars("users"), <<ColId, ColEmail255>>, UsersPk, <<IdxEmailUnique>>, <<>>, <<>>)
\* The same table with the email column narrowed from 255 to 128.
UsersNarrow ==
  Table(Chars("users"), <<ColId, ColEmail128>>, UsersPk, <<IdxEmailUnique>>, <<>>, <<>>)
\* The same table with the index users_email_key no longer unique.
UsersFlip == Table(Chars("users"), <<ColId, ColEmail255>>, UsersPk, <<IdxEmailPlain>>, <<>>, <<>>)
\* The table users of the generator tests' target model.
UsersB ==
  Table(Chars("users"), <<ColId, ColEmail128, ColStatus>>, UsersPk,
        <<IdxEmailPlain, IdxStatus>>, <<>>, <<>>)
AuditLog == Table(Chars("audit_log"), <<ColAuditId, ColPayload>>, <<>>, <<>>, <<>>, <<>>)

TablePool == {UsersA, UsersNarrow, UsersB, AuditLog}

ViewPool ==
  { View(Chars("v_active"), Chars("SELECT 1")),
    View(Chars("v_active"), Chars("SELECT 2")),
    View(Chars("V_all"), Chars(" SELECT 3\n")) }

RoutinePool ==
  { Routine(Chars("cleanup"), Chars("function"), Chars("SELECT 1;")),
    Routine(Chars("cleanup"), Chars("function"), Chars("SELECT 2;")),
    Routine(Chars("cleanup"), Chars("procedure"), Chars("DROP TABLE tmp;")) }

TriggerPool ==
  { Trigger(Chars("c"), Chars("a.b"), Chars("before"), <<Chars("insert")>>, Chars("CALL f()")),
    Trigger(Chars("c"), Chars("a.b"), Chars("after"), <<Chars("insert")>>, Chars("CALL f()")),
    Trigger(Chars("b.c"), Chars("a"), Chars("before"), <<Chars("insert")>>, Chars("CALL g()")) }

EmptyModel == SchemaModel(<<>>, <<>>, <<>>, <<>>)

\* The input models of the generators: whole schemas, whose differences
\* put objects into every list of a DiffResult at once.
ColEmailText ==
  Column(Chars("email"), Chars("text"), <<>>, TRUE, Chars("'n/a'"), Undef, Chars("C"))
UsersAlt == Table(Chars("users"), <<ColId, ColEmailText>>, UsersPk, <<IdxEmailUnique>>, <<>>, <<>>)

\* Both tables in a state that differs from every other model's in
\* columns dropped, added and altered and in indexes dropped and created.
ColPhone == Column(Chars("phone"), Chars("varchar"), <<32>>, TRUE, Undef, Undef, Undef)
IdxPhone == Index(Chars("users_phone_idx"), FALSE, <<Chars("phone")>>, Undef)
UsersWide ==
  Table(Chars("users"), <<ColId, ColEmailText, ColPhone>>, UsersPk, <<IdxPhone>>, <<>>, <<>>)
ColAuditIdInt ==
  Column(Chars("id"), Chars("integer"), <<>>, FALSE, Undef, Chars("sequence"), Undef)
ColActor == Column(Chars("actor"), Chars("varchar"), <<64>>, TRUE, Undef, Undef, Undef)
IdxActor == Index(Chars("audit_actor_idx"), FALSE, <<Chars("actor")>>, Undef)
AuditWide ==
  Table(Chars("audit_log"), <<ColAuditIdInt, ColActor>>, <<>>, <<IdxActor>>,
        <<>>, <<>>)

GenModels ==
  { EmptyModel,
    SchemaModel(<<UsersA>>,
                <<View(Chars("v_active"), Chars("SELECT 1"))>>,
                <<Routine(Chars("cleanup"), Chars("procedure"), Chars("DROP TABLE tmp;"))>>,
                <<Trigger(Chars("c"), Chars("a.b"), Chars("before"), <<Chars("insert")>>,
                          Chars("CALL f()"))>>),
    SchemaModel(<<UsersB, AuditLog>>,
                <<View(Chars("v_active"), Chars("SELECT 2")),
                  View(Chars("V_all"), Chars(" SELECT 3\n"))>>,
                <<Routine(Chars("cleanup"), Chars("function"), Chars("SELECT 1;"))>>,
                <<Trigger(Chars("c"), Chars("a.b"), Chars("after"), <<Chars("insert")>>,
                          Chars("CALL f()")),
                  Trigger(Chars("b.c"), Chars("a"), Chars("before"), <<Chars("insert")>>,
                          Chars("CALL g()"))>>),
    SchemaModel(<<AuditLog, UsersFlip>>,
                <<View(Chars("V_all"), Chars(" SELECT 3\n"))>>,
                <<Routine(Chars("cleanup"), Chars("function"), Chars("SELECT 2;"))>>,
                <<>>),
    SchemaModel(<<UsersAlt>>, <<>>, <<>>, <<>>),
    SchemaModel(<<UsersWide, AuditWide>>, <<>>, <<>>, <<>>) }

AllGenOptions ==
  {GenOptions(d, t, s, e, c) :
     d \in {"AtoB", "BtoA"}, t \in BOOLEAN, s \in BOOLEAN, e \in BOOLEAN, c \in BOOLEAN}

\* The families of input models of the differ: within a family one
\* collection varies, over every list of its pool up to the bound.
TableFamily == {SchemaModel(t, <<>>, <<>>, <<>>) : t \in ListsUpTo(TablePool, MaxTables)}
ViewFamily == {SchemaModel(<<>>, v, <<>>, <<>>) : v \in ListsUpTo(ViewPool, MaxObjects)}
RoutineFamily == {SchemaModel(<<>>, <<>>, r, <<>>) : r \in ListsUpTo(RoutinePool, MaxObjects)}
TriggerFamily == {SchemaModel(<<>>, <<>>, <<>>, g) : g \in ListsUpTo(TriggerPool, MaxObjects)}

\* The options the desktop application normalizes every loaded model with.
DesktopOptions ==
  NormalizationOptions(<<[strategy |-> "lower", ignore |-> <<>>]>>, TRUE, <<>>)

\* The models of a family as computeDiff may receive them: as the loader
\* built them, or normalized.
Loaded(family) == family \cup {normalizeSchemaModel(m, DesktopOptions) : m \in family}

(***************************************************************************)
(* The state.                                                              *)
(***************************************************************************)
VARIABLES
  a, b,        \* the two schema models handed to computeDiff
  dAB,         \* computeDiff(a, b), once computed: <<>> or <<DiffResult>>
  dBA,         \* computeDiff(b, a), once computed
  dAA,         \* computeDiff(a, a), once computed
  script,      \* the script generated: <<>> or one record
               \* [dialect, opts, of, text], of naming the diff it is from
  model,       \* the schema model handed to normalizeSchemaModel
  options,     \* the NormalizationOptions of both calls
  once,        \* normalizeSchemaModel(model, options), once computed
  twice,       \* normalizeSchemaModel of that result, once computed
  loads,       \* the loader calls in flight, one record for each
  comparison,  \* the comparison awaiting the two loads: <<>> or one record
               \* [state, computeDiffCalls]
  compared,    \* the two models normalized and their diff: <<>> or one
               \* record [options, source, target, diff]
  report,      \* what the compare command writes for a diff: <<>> or one
               \* record [of, summary, rendered]
  catalog,     \* the rows a server returns to a loader: <<>> or one record
               \* [loader, pkRows, indexRows]
  introspected, \* the table introspectTables builds from the rows
  connection   \* a connection URL given to the command line: <<>> or one
               \* record [url, defaultSchema, parsed]

diffVars == <<a, b, dAB, dBA, dAA>>
genVars == <<script>>
normVars == <<model, options, once, twice>>
loadVars == <<loads, comparison>>
catalogVars == <<catalog, introspected>>

pipeVars == <<compared, report, catalogVars, connection>>

vars == <<a, b, dAB, dBA, dAA, script, model, options, once, twice, loads, comparison,
          compared, report, catalog, introspected, connection>>

\* The parts of the state a specification does not use.
DiffIdle == a = <<>> /\ b = <<>> /\ dAB = <<>> /\ dBA = <<>> /\ dAA = <<>>
GenIdle == script = <<>>
NormIdle == model = <<>> /\ options = <<>> /\ once = <<>> /\ twice = <<>>
LoadIdle == loads = <<>> /\ comparison = <<>>
PipeIdle == compared = <<>> /\ report = <<>> /\ catalog = <<>> /\ introspected = <<>>
            /\ connection = <<>>

(***************************************************************************)
(* The differ as a state machine: the inputs are drawn, then computeDiff   *)
(* is applied to them in both orders and to a with itself.                 *)
(***************************************************************************)
InitDiff ==
  /\ \/ a \in Loaded(TableFamily) /\ b \in Loaded(TableFamily)
     \/ a \in Loaded(ViewFamily) /\ b \in Loaded(ViewFamily)
     \/ a \in Loaded(RoutineFamily) /\ b \in Loaded(RoutineFamily)
     \/ a \in Loaded(TriggerFamily) /\ b \in Loaded(TriggerFamily)
  /\ dAB = <<>>
  /\ dBA = <<>>
  /\ dAA = <<>>
  /\ GenIdle /\ NormIdle /\ LoadIdle /\ PipeIdle

ComputeDiffAB ==
  /\ dAB = <<>>
  /\ dAB' = <<computeDiff(a, b)>>
  /\ UNCHANGED <<a, b, dBA, dAA, genVars, normVars, loadVars, pipeVars>>

ComputeDiffBA ==
  /\ dAB # <<>>
  /\ dBA = <<>>
  /\ dBA' = <<computeDiff(b, a)>>
  /\ UNCHANGED <<a, b, dAB, dAA, genVars, normVars, loadVars, pipeVars>>

ComputeDiffSelf ==
  /\ dBA # <<>>
  /\ dAA = <<>>
  /\ dAA' = <<computeDiff(a, a)>>
  /\ UNCHANGED <<a, b, dAB, dBA, genVars, normVars, loadVars, pipeVars>>

NextDiff == ComputeDiffAB \/ ComputeDiffBA \/ ComputeDiffSelf

SpecDiff == InitDiff /\ [][NextDiff]_vars

(***************************************************************************)
(* The generators as a state machine: the two models are drawn, diffed in  *)
(* both orders, and one script is generated from either diff, for either   *)
(* dialect, under any options.                                             *)
(***************************************************************************)
InitGen ==
  /\ a \in GenModels
  /\ b \in GenModels
  /\ dAB = <<>>
  /\ dBA = <<>>
  /\ dAA = <<>>
  /\ GenIdle /\ NormIdle /\ LoadIdle /\ PipeIdle

\* The diff a script is generated from.
DiffOf(of) == IF of = "AB" THEN dAB[1] ELSE dBA[1]

GeneratePostgres ==
  /\ dBA # <<>>
  /\ script = <<>>
  /\ \E of \in {"AB", "BA"}, opts \in AllGenOptions :
       script' = <<[dialect |-> "postgres", opts |-> opts, of |-> of,
                    text |-> toPostgres(DiffOf(of), opts)]>>
  /\ UNCHANGED <<diffVars, normVars, loadVars, pipeVars>>

GenerateMariaDB ==
  /\ dBA # <<>>
  /\ script = <<>>
  /\ \E of \in {"AB", "BA"}, opts \in AllGenOptions :
       script' = <<[dialect |-> "mariadb", opts |-> opts, of |-> of,
                    text |-> toMariaDB(DiffOf(of), opts)]>>
  /\ UNCHANGED <<diffVars, normVars, loadVars, pipeVars>>

NextGen == ComputeDiffAB \/ ComputeDiffBA \/ GeneratePostgres \/ GenerateMariaDB

SpecGen == InitGen /\ [][NextGen]_vars

(***************************************************************************)
(* The normalizer as a state machine: a model and the options are drawn,   *)
(* normalizeSchemaModel is applied, and applied again to its own result.   *)
(***************************************************************************)
NormTypes == {Chars("INTEGER"), Chars("int"), Chars("Int4"), Chars("varchar"), Chars("a")}

NormDefaults ==
  {Undef, Null, Chars(" ((now())) "), Chars("(0)"), Chars("(a) + (b)"), Chars("( )"),
   Chars("  ")}

\* A table whose every name is in mixed case.
NormUsers(dataType, default) ==
  Table(Chars("Users"),
        <<Column(Chars("Id"), dataType, <<>>, FALSE, default, Undef, Undef)>>,
        <<PrimaryKey(Chars("Users_PKey"), <<Chars("Id")>>)>>,
        <<Index(Chars("Users_Id_Key"), TRUE, <<Chars("Id")>>, Chars("BTREE"))>>,
        <<Check(Chars("Users_Chk"), Chars(" Id  >\n 0 "))>>,
        <<ForeignKey(Chars("Users_Org_FK"), <<Chars("Org")>>, Chars("Orgs"), <<Chars("Id")>>,
                     Undef, Chars("cascade"))>>)

NormModels ==
  {SchemaModel(<<NormUsers(t, d)>>,
               <<View(Chars("V_all"), Chars(" SELECT 3\n")),
                 View(Chars("v_active"), Chars("SELECT 1"))>>,
               <<Routine(Chars("Cleanup"), Chars("function"), Chars("SELECT 1;"))>>,
               <<Trigger(Chars("Trg"), Chars("Users"), Chars("before"), <<Chars("insert")>>,
                         Chars("CALL f()"))>>) :
     t \in NormTypes, d \in NormDefaults}
  \cup {EmptyModel, SchemaModel(<<AuditLog, UsersA>>, <<>>, <<>>, <<>>)}

NameCases ==
  { <<>>,
    <<[strategy |-> "lower", ignore |-> <<>>]>>,
    <<[strategy |-> "upper", ignore |-> <<>>]>>,
    <<[strategy |-> "preserve", ignore |-> <<>>]>>,
    <<[strategy |-> "lower", ignore |-> <<Chars("Users")>>]>>,
    <<[strategy |-> "upper", ignore |-> <<Chars("USERS")>>]>> }

MapTypesPool ==
  { <<>>,
    <<[key |-> Chars("varchar"), value |-> Chars("text")]>>,
    <<[key |-> Chars("int"), value |-> Chars("integer")]>>,
    <<[key |-> Chars("a"), value |-> Chars("b")], [key |-> Chars("b"), value |-> Chars("c")]>> }

NormOptions ==
  {NormalizationOptions(nc, nd, mt) :
     nc \in NameCases, nd \in BOOLEAN, mt \in MapTypesPool}

InitNorm ==
  /\ model \in NormModels
  /\ options \in NormOptions
  /\ once = <<>>
  /\ twice = <<>>
  /\ DiffIdle /\ GenIdle /\ LoadIdle /\ PipeIdle

Normalize ==
  /\ once = <<>>
  /\ once' = <<normalizeSchemaModel(model, options)>>
  /\ UNCHANGED <<model, options, twice, diffVars, genVars, loadVars, pipeVars>>

NormalizeAgain ==
  /\ once # <<>>
  /\ twice = <<>>
  /\ twice' = <<normalizeSchemaModel(once[1], options)>>
  /\ UNCHANGED <<model, options, once, diffVars, genVars, loadVars, pipeVars>>

NextNorm == Normalize \/ NormalizeAgain

SpecNorm == InitNorm /\ [][NextNorm]_vars

(***************************************************************************)
(* The loaders as a state machine.  A comparison calls loadSchema for its  *)
(* source and its target at once (Promise.all); each call runs one loader, *)
(* which advances from one await to the next.  A connection attempt and    *)
(* every catalog query may succeed or fail.                                *)
(***************************************************************************)
POSTGRES_SYSTEM_SCHEMAS == {"pg_catalog", "information_schema", "pg_toast", "pg_internal"}

MARIADB_SYSTEM_SCHEMAS == {"mysql", "performance_schema", "information_schema", "sys"}

\* SYSTEM_SCHEMAS with the set of loadPostgres in both loaders.
systemSchemasOfPostgres(loader) == POSTGRES_SYSTEM_SCHEMAS

SYSTEM_SCHEMAS(loader) ==
  IF loader = "postgres" THEN POSTGRES_SYSTEM_SCHEMAS ELSE MARIADB_SYSTEM_SCHEMAS

LoadCalls == {"source", "target"}

Loaders == {"postgres", "mariadb"}

SchemaNames == {"public"} \cup POSTGRES_SYSTEM_SCHEMAS \cup MARIADB_SYSTEM_SCHEMAS

\* The awaits inside the try block, in order, and what follows each.
Introspections == <<"tables", "views", "routines", "triggers">>

AfterIntrospection(pc) ==
  IF pc = "tables" THEN "views"
  ELSE IF pc = "views" THEN "routines"
  ELSE IF pc = "routines" THEN "triggers"
  ELSE "finally"

\* A call of loadPostgres or loadMariaDB before its first statement.
\*   client: the pg Client or the mariadb pool: none, created, connected, ended
\*   conn:   the connection taken from the pool: none, held, released
\*   thrown: an error is on its way out of the try block
\*   result: the returned promise: pending, resolved, rejected
\*   error:  what the promise is rejected with: none, or the Error thrown by
\*           the kind guard ("kind"), by the system-schema guard
\*           ("system schema"), by the driver on connecting ("connect") or
\*           by a catalog query ("catalog")
\*   parts:  how many of the four introspections have returned
LoadCall(loader, kind, schema) ==
  [loader |-> loader, kind |-> kind, schema |-> schema, pc |-> "called",
   client |-> "none", conn |-> "none", thrown |-> FALSE, result |-> "pending",
   error |-> "none", parts |-> 0]

InitLoad ==
  /\ loads \in [LoadCalls -> {LoadCall(l, k, s) : l \in Loaders, k \in Loaders, s \in SchemaNames}]
  /\ comparison = <<[state |-> "loading", computeDiffCalls |-> 0]>>
  /\ DiffIdle /\ GenIdle /\ NormIdle /\ PipeIdle

\* The statements up to the first await: the two guards, then the client
\* (new Client) or the pool (createPool), then connect()/getConnection().
Call(i) ==
  /\ loads[i].pc = "called"
  /\ loads' =
       [loads EXCEPT ![i] =
          IF loads[i].kind # loads[i].loader
            THEN [@ EXCEPT !.pc = "settled", !.result = "rejected", !.error = "kind"]
          ELSE IF loads[i].schema \in SYSTEM_SCHEMAS(loads[i].loader)
            THEN [@ EXCEPT !.pc = "settled", !.result = "rejected",
                           !.error = "system schema"]
          ELSE [@ EXCEPT !.pc = "connecting", !.client = "created"]]
  /\ UNCHANGED <<comparison, diffVars, genVars, normVars, pipeVars>>

\* await client.connect() / await pool.getConnection() succeeds.
Connected(i) ==
  /\ loads[i].pc = "connecting"
  /\ loads' =
       [loads EXCEPT ![i] =
          [@ EXCEPT !.pc = "tables", !.client = "connected",
                    !.conn = IF loads[i].loader = "mariadb" THEN "held" ELSE "none"]]
  /\ UNCHANGED <<comparison, diffVars, genVars, normVars, pipeVars>>

\* It fails: the await is outside the try block, so the error leaves the
\* function at once.
ConnectFailed(i) ==
  /\ loads[i].pc = "connecting"
  /\ loads' = [loads EXCEPT ![i] = [@ EXCEPT !.pc = "settled", !.result = "rejected",
                                               !.error = "connect"]]
  /\ UNCHANGED <<comparison, diffVars, genVars, normVars, pipeVars>>

\* One of the four introspections returns.
Introspected(i) ==
  /\ \E k \in 1..Len(Introspections) : loads[i].pc = Introspections[k]
  /\ loads' = [loads EXCEPT ![i] = [@ EXCEPT !.pc = AfterIntrospection(loads[i].pc),
                                               !.parts = @ + 1]]
  /\ UNCHANGED <<comparison, diffVars, genVars, normVars, pipeVars>>

\* One of them throws: control goes to the finally block.
IntrospectionFailed(i) ==
  /\ \E k \in 1..Len(Introspections) : loads[i].pc = Introspections[k]
  /\ loads' = [loads EXCEPT ![i] = [@ EXCEPT !.pc = "finally", !.thrown = TRUE,
                                               !.error = "catalog"]]
  /\ UNCHANGED <<comparison, diffVars, genVars, normVars, pipeVars>>

\* The finally block up to its await: conn.release() for MariaDB, then
\* client.end() / pool.end() is called.
Finally(i) ==
  /\ loads[i].pc = "finally"
  /\ loads' =
       [loads EXCEPT ![i] =
          [@ EXCEPT !.pc = "ending",
                    !.conn = IF loads[i].loader = "mariadb" THEN "released" ELSE "none"]]
  /\ UNCHANGED <<comparison, diffVars, genVars, normVars, pipeVars>>

\* Ended with the error dropped in the finally block: the promise resolves
\* with whatever was assembled.
EndedSwallowsTheError(i) ==
  /\ loads[i].pc = "ending"
  /\ loads' =
       [loads EXCEPT ![i] =
          [@ EXCEPT !.pc = "settled", !.client = "ended", !.result = "resolved"]]
  /\ UNCHANGED <<comparison, diffVars, genVars, normVars, pipeVars>>

\* end() resolves; the promise settles with the model or with the error.
Ended(i) ==
  /\ loads[i].pc = "ending"
  /\ loads' =
       [loads EXCEPT ![i] =
          [@ EXCEPT !.pc = "settled", !.client = "ended",
                    !.result = IF loads[i].thrown THEN "rejected" ELSE "resolved"]]
  /\ UNCHANGED <<comparison, diffVars, genVars, normVars, pipeVars>>

\* loadDiff after its await Promise.all([...]) when both loads have
\* resolved: the two models are normalized and computeDiff is called.
BothLoaded ==
  /\ comparison[1].state = "loading"
  /\ \A i \in LoadCalls : loads[i].result = "resolved"
  /\ comparison' = <<[state |-> "diffed",
                      computeDiffCalls |-> comparison[1].computeDiffCalls + 1]>>
  /\ UNCHANGED <<loads, diffVars, genVars, normVars, pipeVars>>

\* The await throws as soon as one load is rejected, whatever the other
\* is doing: loadDiff is rejected with that error and its caller returns
\* nothing.
OneLoadFailed ==
  /\ comparison[1].state = "loading"
  /\ \E i \in LoadCalls : loads[i].result = "rejected"
  /\ comparison' = <<[comparison[1] EXCEPT !.state = "failed"]>>
  /\ UNCHANGED <<loads, diffVars, genVars, normVars, pipeVars>>

NextLoad ==
  \/ \E i \in LoadCalls :
       \/ Call(i)
       \/ Connected(i)
       \/ ConnectFailed(i)
       \/ Introspected(i)
       \/ IntrospectionFailed(i)
       \/ Finally(i)
       \/ Ended(i)
  \/ BothLoaded
  \/ OneLoadFailed

SpecLoad == InitLoad /\ [][NextLoad]_vars

(***************************************************************************)
(* Vocabulary of the properties.                                           *)
(***************************************************************************)
Range(seq) == {seq[i] : i \in 1..Len(seq)}

\* No two elements of a list of keys are equal.
Distinct(keys) == \A i, j \in 1..Len(keys) : keys[i] = keys[j] => i = j

\* A list of keys is in ascending order of JavaScript's string comparison.
Ascending(keys) == \A i \in 1..(Len(keys) - 1) : ~StrLess(keys[i + 1], keys[i])

\* The model invariants of the schema model: keys are unique within each
\* collection, a routine's key being (kind, name) and a trigger's
\* (table, name).
UniqueNames(m) ==
  /\ Distinct(Names(m.tables))
  /\ \A i \in 1..Len(m.tables) :
       /\ Distinct(Names(m.tables[i].columns))
       /\ Distinct(Names(m.tables[i].indexes))
       /\ Distinct(Names(m.tables[i].checks))
       /\ Distinct(Names(m.tables[i].fks))
  /\ Distinct(Names(m.views))
  /\ Distinct([i \in 1..Len(m.routines) |-> <<m.routines[i].kind, m.routines[i].name>>])
  /\ Distinct([i \in 1..Len(m.triggers) |-> <<m.triggers[i].table, m.triggers[i].name>>])

\* A model is as the desktop application's normalization leaves it.
IsNormalized(m) == normalizeSchemaModel(m, DesktopOptions) = m

EmptyLists(lists) == lists.added = <<>> /\ lists.removed = <<>> /\ lists.changed = <<>>

EmptyDiff(d) ==
  EmptyLists(d.tables) /\ EmptyLists(d.views) /\ EmptyLists(d.routines)
    /\ EmptyLists(d.triggers)

\* The three lists of one keyed comparison are ascending.
ListsAscending(lists) ==
  Ascending(Names(lists.added)) /\ Ascending(Names(lists.removed))
    /\ Ascending(Names(lists.changed))

TableChangeAscending(c) ==
  /\ Ascending(Names(c.addedColumns)) /\ Ascending(Names(c.removedColumns))
  /\ Ascending(Names(c.columnChanges))
  /\ Ascending(Names(c.addedIndexes)) /\ Ascending(Names(c.removedIndexes))
  /\ Ascending(Names(c.indexChanges))
  /\ Ascending(Names(c.addedChecks)) /\ Ascending(Names(c.removedChecks))
  /\ Ascending(Names(c.checkChanges))
  /\ Ascending(Names(c.addedForeignKeys)) /\ Ascending(Names(c.removedForeignKeys))
  /\ Ascending(Names(c.foreignKeyChanges))

DiffAscending(d) ==
  /\ Ascending(Names(d.tables.added))
  /\ Ascending(Names(d.tables.removed))
  /\ Ascending([i \in 1..Len(d.tables.changed) |-> d.tables.changed[i].table.name])
  /\ \A i \in 1..Len(d.tables.changed) : TableChangeAscending(d.tables.changed[i])
  /\ Ascending(viewKeys(d.views.added)) /\ Ascending(viewKeys(d.views.removed))
  /\ Ascending(Names(d.views.changed))
  /\ Ascending(routineKeys(d.routines.added)) /\ Ascending(routineKeys(d.routines.removed))
  /\ Ascending(Names(d.routines.changed))
  /\ Ascending(triggerKeys(d.triggers.added)) /\ Ascending(triggerKeys(d.triggers.removed))
  /\ Ascending(Names(d.triggers.changed))

Reverse(seq) == [i \in 1..Len(seq) |-> seq[Len(seq) + 1 - i]]

\* The same objects, every collection listed in the opposite order.
Reordered(m) ==
  SchemaModel(Reverse(m.tables), Reverse(m.views), Reverse(m.routines), Reverse(m.triggers))

(***************************************************************************)
(* The properties of the differ, under SpecDiff.                           *)
(***************************************************************************)

\* C4: every added, removed and changed list of a computeDiff result is in
\* ascending order of its key whatever the order of the inputs, and the
\* same objects listed in another order give the identical result.
C4_ListsSortedWhateverTheOrder ==
  (dAB # <<>> /\ UniqueNames(a) /\ UniqueNames(b)) =>
    /\ DiffAscending(dAB[1])
    /\ computeDiff(Reordered(a), Reordered(b)) = dAB[1]

\* The run that refutes C4: B holds the tables users and audit_log, in
\* that order, A holds none, and tables.added comes out as B lists them.
C4_AddedTablesInInputOrder ==
  /\ dAB # <<>>
  /\ a.tables = <<>>
  /\ Names(b.tables) = <<Chars("users"), Chars("audit_log")>>
  /\ Names(dAB[1].tables.added) = <<Chars("users"), Chars("audit_log")>>

\* C6: for every model m whose names are unique within each collection,
\* normalized or not, computeDiff(m, m) has empty added, removed and
\* changed lists for tables, views, routines and triggers.
C6_EmptyDiffIdentity ==
  (dAA # <<>> /\ UniqueNames(a)) => EmptyDiff(dAA[1])

\* A normalized model of two tables has been compared with itself.
C6_NormalizedModelDiffedWithItself ==
  /\ dAA # <<>>
  /\ UniqueNames(a)
  /\ IsNormalized(a)
  /\ Len(a.tables) = MaxTables

\* C7: for each of tables, views, routines and triggers, the keys of
\* computeDiff(a, b).added are the keys of computeDiff(b, a).removed, and
\* the keys of computeDiff(a, b).removed those of computeDiff(b, a).added.
C7_DirectionSymmetry ==
  (dAB # <<>> /\ dBA # <<>>) =>
    /\ Range(Names(dAB[1].tables.added)) = Range(Names(dBA[1].tables.removed))
    /\ Range(Names(dAB[1].tables.removed)) = Range(Names(dBA[1].tables.added))
    /\ Range(viewKeys(dAB[1].views.added)) = Range(viewKeys(dBA[1].views.removed))
    /\ Range(viewKeys(dAB[1].views.removed)) = Range(viewKeys(dBA[1].views.added))
    /\ Range(routineKeys(dAB[1].routines.added)) = Range(routineKeys(dBA[1].routines.removed))
    /\ Range(routineKeys(dAB[1].routines.removed)) = Range(routineKeys(dBA[1].routines.added))
    /\ Range(triggerKeys(dAB[1].triggers.added)) = Range(triggerKeys(dBA[1].triggers.removed))
    /\ Range(triggerKeys(dAB[1].triggers.removed)) = Range(triggerKeys(dBA[1].triggers.added))

\* Two normalized models, each holding a table the other lacks, have been
\* compared in both orders.
C7_BothOrdersWithAddedAndRemoved ==
  /\ dAB # <<>> /\ dBA # <<>>
  /\ IsNormalized(a) /\ IsNormalized(b)
  /\ dAB[1].tables.added # <<>>
  /\ dAB[1].tables.removed # <<>>

\* A column of ta and a column of tb that differ in their length alone.
LengthAloneDiffers(ca, cb) ==
  /\ ca.name = cb.name
  /\ ca.length # cb.length
  /\ [ca EXCEPT !.length = <<>>] = [cb EXCEPT !.length = <<>>]

\* C8: when a column of a table of A and the column of the same name of
\* the same table of B differ in their length alone, the table is in
\* tables.changed of computeDiff(A, B).
C8_LengthChangeIsReported ==
  (dAB # <<>> /\ UniqueNames(a) /\ UniqueNames(b)) =>
    \A i \in 1..Len(a.tables), j \in 1..Len(b.tables) :
      (/\ a.tables[i].name = b.tables[j].name
       /\ \E k \in 1..Len(a.tables[i].columns), l \in 1..Len(b.tables[j].columns) :
            LengthAloneDiffers(a.tables[i].columns[k], b.tables[j].columns[l]))
      => \E c \in 1..Len(dAB[1].tables.changed) :
           dAB[1].tables.changed[c].table.name = a.tables[i].name

\* The run that refutes C8: users.email is varchar(255) in A and
\* varchar(128) in B, nothing else differs, and the diff is empty.
C8_NarrowedLengthUnreported ==
  /\ dAB # <<>>
  /\ a.tables = <<UsersA>>
  /\ b.tables = <<UsersNarrow>>
  /\ EmptyDiff(dAB[1])

(***************************************************************************)
(* The properties of the generators, under SpecGen.                        *)
(***************************************************************************)
\* word stands in text from position i on.
BeginsAt(text, i, word) ==
  /\ i + Len(word) - 1 <= Len(text)
  /\ text[i] = word[1]
  /\ SubSeq(text, i, i + Len(word) - 1) = word

Contains(text, word) == \E i \in 1..(Len(text) - Len(word) + 1) : BeginsAt(text, i, word)

\* The positions at which the lines of a text begin.
LineStarts(text) == {1} \cup {i + 1 : i \in {j \in 1..Len(text) : text[j] = "\n"}}

\* The line of a text that begins at position i.
LineAt(text, i) ==
  LET ends == {j \in i..Len(text) : text[j] = "\n"}
  IN IF ends = {} THEN SubSeq(text, i, Len(text))
     ELSE SubSeq(text, i, (CHOOSE j \in ends : \A k \in ends : j <= k) - 1)

\* C1: under safeMode no line of the script of either generator, for any
\* diff and either direction, begins with DROP, and no ALTER TABLE line
\* drops a column: every destructive statement is behind "-- ".
C1_SafeModeCommentsEveryDrop ==
  (script # <<>> /\ script[1].opts.safeMode) =>
    \A i \in LineStarts(script[1].text) :
      /\ ~BeginsAt(script[1].text, i, Chars("DROP "))
      /\ ~(/\ BeginsAt(script[1].text, i, Chars("ALTER TABLE "))
           /\ Contains(LineAt(script[1].text, i), Chars(" DROP COLUMN ")))

\* The run that refutes C1: the procedure cleanup, whose definition is
\* DROP TABLE tmp;, is to be created, and its definition is a line of the
\* script generated under safeMode.
C1_RoutineBodyDropsUnderSafeMode ==
  /\ script # <<>>
  /\ script[1].opts.safeMode
  /\ \E i \in LineStarts(script[1].text) :
       LineAt(script[1].text, i) = Chars("DROP TABLE tmp;")

\* What a script of the dialect and the options says to drop or to create
\* one object, up to the object's name.
Quoted(s, name) == identFor(s.dialect, name)

IfExists(s) == When(s.opts.ifExists, Chars(" IF EXISTS"))

DropTableText(s, t) == Chars("DROP TABLE") \o IfExists(s) \o <<" ">> \o Quoted(s, t.name)

CreateTableText(s, t) == Chars("CREATE TABLE ") \o Quoted(s, t.name) \o Chars(" (")

DropColumnText(s, t, c) ==
  Chars("ALTER TABLE ") \o Quoted(s, t.name) \o Chars(" DROP COLUMN ") \o Quoted(s, c.name)

AddColumnText(s, t, c) ==
  Chars("ALTER TABLE ") \o Quoted(s, t.name) \o Chars(" ADD COLUMN ") \o Quoted(s, c.name)

DropIndexText(s, index) ==
  Chars("DROP INDEX") \o (IF s.dialect = "postgres" THEN IfExists(s) ELSE <<>>)
    \o <<" ">> \o Quoted(s, index.name)

CreateIndexText(s, t, unique, name) ==
  Chars("CREATE ") \o When(unique, Chars("UNIQUE ")) \o Chars("INDEX ") \o Quoted(s, name)
    \o Chars(" ON ") \o Quoted(s, t.name)

DropViewText(s, v) == Chars("DROP VIEW") \o IfExists(s) \o <<" ">> \o Quoted(s, v.name)

CreateViewText(s, v) == Chars("CREATE OR REPLACE VIEW ") \o Quoted(s, v.name) \o Chars(" AS")

DropRoutineText(s, r) ==
  Chars("DROP ") \o toUpperCase(r.kind) \o IfExists(s) \o <<" ">> \o Quoted(s, r.name)

CreateRoutineText(s, r) == Chars("-- Routine ") \o r.name \o EOL \o EOL \o trim(r.definition)

DropTriggerText(s, g) ==
  Chars("DROP TRIGGER") \o IfExists(s) \o <<" ">> \o Quoted(s, g.name) \o Chars(" ON ")
    \o Quoted(s, g.table)

CreateTriggerText(s, g) ==
  Chars("-- Trigger ") \o g.name \o Chars(" on ") \o g.table \o EOL \o EOL
    \o trim(g.definition)

\* The objects of one pair of lists a script must drop, and must create:
\* under AtoB those only B has (added) go and those only A has (removed)
\* come; under BtoA the other way round.
MustDrop(s, added, removed) == IF s.opts.direction = "AtoB" THEN added ELSE removed

MustCreate(s, added, removed) == IF s.opts.direction = "AtoB" THEN removed ELSE added

DirectionHonouredForTables(s, d) ==
  /\ \A i \in 1..Len(MustDrop(s, d.tables.added, d.tables.removed)) :
       /\ Contains(s.text, DropTableText(s, MustDrop(s, d.tables.added, d.tables.removed)[i]))
       /\ ~Contains(s.text, CreateTableText(s, MustDrop(s, d.tables.added, d.tables.removed)[i]))
  /\ \A i \in 1..Len(MustCreate(s, d.tables.added, d.tables.removed)) :
       /\ Contains(s.text,
                   CreateTableText(s, MustCreate(s, d.tables.added, d.tables.removed)[i]))
       /\ ~Contains(s.text,
                    DropTableText(s, MustCreate(s, d.tables.added, d.tables.removed)[i]))

DirectionHonouredInTable(s, c) ==
  /\ \A i \in 1..Len(MustDrop(s, c.addedColumns, c.removedColumns)) :
       /\ Contains(s.text,
            DropColumnText(s, c.table, MustDrop(s, c.addedColumns, c.removedColumns)[i]))
       /\ ~Contains(s.text,
            AddColumnText(s, c.table, MustDrop(s, c.addedColumns, c.removedColumns)[i]))
  /\ \A i \in 1..Len(MustCreate(s, c.addedColumns, c.removedColumns)) :
       /\ Contains(s.text,
            AddColumnText(s, c.table, MustCreate(s, c.addedColumns, c.removedColumns)[i]))
       /\ ~Contains(s.text,
            DropColumnText(s, c.table, MustCreate(s, c.addedColumns, c.removedColumns)[i]))
  /\ \A i \in 1..Len(MustDrop(s, c.addedIndexes, c.removedIndexes)) :
       /\ Contains(s.text,
            DropIndexText(s, MustDrop(s, c.addedIndexes, c.removedIndexes)[i]))
       /\ ~Contains(s.text,
            CreateIndexText(s, c.table,
                            MustDrop(s, c.addedIndexes, c.removedIndexes)[i].unique,
                            MustDrop(s, c.addedIndexes, c.removedIndexes)[i].name))
  /\ \A i \in 1..Len(MustCreate(s, c.addedIndexes, c.removedIndexes)) :
       /\ Contains(s.text,
            CreateIndexText(s, c.table,
                            MustCreate(s, c.addedIndexes, c.removedIndexes)[i].unique,
                            MustCreate(s, c.addedIndexes, c.removedIndexes)[i].name))
       /\ ~Contains(s.text,
            DropIndexText(s, MustCreate(s, c.addedIndexes, c.removedIndexes)[i]))

DirectionHonouredForViews(s, d) ==
  /\ \A i \in 1..Len(MustDrop(s, d.views.added, d.views.removed)) :
       /\ Contains(s.text, DropViewText(s, MustDrop(s, d.views.added, d.views.removed)[i]))
       /\ ~Contains(s.text, CreateViewText(s, MustDrop(s, d.views.added, d.views.removed)[i]))
  /\ \A i \in 1..Len(MustCreate(s, d.views.added, d.views.removed)) :
       /\ Contains(s.text, CreateViewText(s, MustCreate(s, d.views.added, d.views.removed)[i]))
       /\ ~Contains(s.text, DropViewText(s, MustCreate(s, d.views.added, d.views.removed)[i]))

DirectionHonouredForRoutines(s, d) ==
  /\ \A i \in 1..Len(MustDrop(s, d.routines.added, d.routines.removed)) :
       /\ Contains(s.text,
            DropRoutineText(s, MustDrop(s, d.routines.added, d.routines.removed)[i]))
       /\ ~Contains(s.text,
            CreateRoutineText(s, MustDrop(s, d.routines.added, d.routines.removed)[i]))
  /\ \A i \in 1..Len(MustCreate(s, d.routines.added, d.routines.removed)) :
       /\ Contains(s.text,
            CreateRoutineText(s, MustCreate(s, d.routines.added, d.routines.removed)[i]))
       /\ ~Contains(s.text,
            DropRoutineText(s, MustCreate(s, d.routines.added, d.routines.removed)[i]))

DirectionHonouredForTriggers(s, d) ==
  /\ \A i \in 1..Len(MustDrop(s, d.triggers.added, d.triggers.removed)) :
       /\ Contains(s.text,
            DropTriggerText(s, MustDrop(s, d.triggers.added, d.triggers.removed)[i]))
       /\ ~Contains(s.text,
            CreateTriggerText(s, MustDrop(s, d.triggers.added, d.triggers.removed)[i]))
  /\ \A i \in 1..Len(MustCreate(s, d.triggers.added, d.triggers.removed)) :
       /\ Contains(s.text,
            CreateTriggerText(s, MustCreate(s, d.triggers.added, d.triggers.removed)[i]))
       /\ ~Contains(s.text,
            DropTriggerText(s, MustCreate(s, d.triggers.added, d.triggers.removed)[i]))

\* C2: a script generated with direction AtoB holds a drop for every
\* object of the diff's added lists and a create for every object of its
\* removed lists, and neither a create for the former nor a drop for the
\* latter: tables, the columns and indexes of changed tables, views,
\* routines, triggers.  With BtoA added and removed change places.
C2_DirectionSemantics ==
  script # <<>> =>
    /\ DirectionHonouredForTables(script[1], DiffOf(script[1].of))
    /\ \A i \in 1..Len(DiffOf(script[1].of).tables.changed) :
         DirectionHonouredInTable(script[1], DiffOf(script[1].of).tables.changed[i])
    /\ DirectionHonouredForViews(script[1], DiffOf(script[1].of))
    /\ DirectionHonouredForRoutines(script[1], DiffOf(script[1].of))
    /\ DirectionHonouredForTriggers(script[1], DiffOf(script[1].of))

\* A script generated with BtoA from a diff that adds a table, a column,
\* an index, a view and a routine and removes a routine.
C2_ScriptAgainstTheDiffsOrder ==
  /\ script # <<>>
  /\ script[1].opts.direction = "BtoA"
  /\ DiffOf(script[1].of).tables.added # <<>>
  /\ \E i \in 1..Len(DiffOf(script[1].of).tables.changed) :
       /\ DiffOf(script[1].of).tables.changed[i].addedColumns # <<>>
       /\ DiffOf(script[1].of).tables.changed[i].addedIndexes # <<>>
  /\ DiffOf(script[1].of).views.added # <<>>
  /\ DiffOf(script[1].of).routines.added # <<>>
  /\ DiffOf(script[1].of).routines.removed # <<>>

\* C3: an index that differs between the two sides of a changed table is
\* in the table's indexChanges, and the script holds a DROP INDEX and a
\* CREATE INDEX for every index of indexChanges.
C3_ChangedIndexDroppedAndCreated ==
  script # <<>> =>
    /\ \A i \in 1..Len(a.tables), j \in 1..Len(b.tables) :
         a.tables[i].name = b.tables[j].name =>
           \A k \in 1..Len(a.tables[i].indexes), l \in 1..Len(b.tables[j].indexes) :
             (/\ a.tables[i].indexes[k].name = b.tables[j].indexes[l].name
              /\ a.tables[i].indexes[k].unique # b.tables[j].indexes[l].unique)
             => \E c \in 1..Len(dAB[1].tables.changed) :
                  /\ dAB[1].tables.changed[c].table.name = a.tables[i].name
                  /\ \E e \in 1..Len(dAB[1].tables.changed[c].indexChanges) :
                       dAB[1].tables.changed[c].indexChanges[e].name
                         = a.tables[i].indexes[k].name
    /\ \A c \in 1..Len(DiffOf(script[1].of).tables.changed) :
         \A e \in 1..Len(DiffOf(script[1].of).tables.changed[c].indexChanges) :
           /\ Contains(script[1].text,
                DropIndexText(script[1],
                              DiffOf(script[1].of).tables.changed[c].indexChanges[e]))
           /\ \E unique \in BOOLEAN :
                Contains(script[1].text,
                  CreateIndexText(script[1], DiffOf(script[1].of).tables.changed[c].table,
                    unique, DiffOf(script[1].of).tables.changed[c].indexChanges[e].name))

\* The run that refutes C3: users_email_key is unique in A and not in B,
\* nothing else of users differs, the diff lists the index in
\* indexChanges, and the script does not mention it.
C3_IndexFlipLeavesNoStatement ==
  /\ script # <<>>
  /\ script[1].of = "AB"
  /\ a.tables = <<UsersA>>
  /\ b.tables = <<AuditLog, UsersFlip>>
  /\ \E c \in 1..Len(dAB[1].tables.changed) :
       Names(dAB[1].tables.changed[c].indexChanges) = <<Chars("users_email_key")>>
  /\ ~Contains(script[1].text, Chars("users_email_key"))

(***************************************************************************)
(* The properties of the normalizer, under SpecNorm.                       *)
(***************************************************************************)

\* C5: normalizing the result of normalizeSchemaModel again, with the same
\* options, returns it unchanged, for every model and every options value.
C5_NormalizeIsIdempotent ==
  twice # <<>> => twice[1] = once[1]

\* The run that refutes C5: mapTypes sends int to integer, the column's
\* type is int; the first pass makes it integer and the second, through
\* the default mapping of integer, int again.
C5_SecondPassUndoesMapTypes ==
  /\ twice # <<>>
  /\ options.mapTypes = <<[key |-> Chars("int"), value |-> Chars("integer")]>>
  /\ model.tables # <<>>
  /\ model.tables[1].columns[1].dataType = Chars("int")
  /\ once[1].tables[1].columns[1].dataType = Chars("integer")
  /\ twice[1].tables[1].columns[1].dataType = Chars("int")

\* name is as the strategy writes it.
InCase(strategy, name) ==
  IF strategy = "lower" THEN toLowerCase(name) = name
  ELSE IF strategy = "upper" THEN toUpperCase(name) = name
  ELSE TRUE

AllInCase(strategy, names) == \A i \in 1..Len(names) : InCase(strategy, names[i])

TableNamesInCase(strategy, t) ==
  /\ InCase(strategy, t.name)
  /\ AllInCase(strategy, Names(t.columns))
  /\ t.primaryKey # <<>> =>
       /\ IsNullish(t.primaryKey[1].name) \/ InCase(strategy, t.primaryKey[1].name)
       /\ AllInCase(strategy, t.primaryKey[1].columns)
  /\ AllInCase(strategy, Names(t.indexes))
  /\ \A i \in 1..Len(t.indexes) : AllInCase(strategy, t.indexes[i].columns)
  /\ AllInCase(strategy, Names(t.checks))
  /\ AllInCase(strategy, Names(t.fks))
  /\ \A i \in 1..Len(t.fks) :
       /\ AllInCase(strategy, t.fks[i].columns)
       /\ InCase(strategy, t.fks[i].refTable)
       /\ AllInCase(strategy, t.fks[i].refColumns)

\* C9: after normalizeSchemaModel with nameCase strategy lower or upper
\* and no ignore list, every table, column, index, check, foreign-key,
\* primary-key, view, routine and trigger name of the result is in that
\* case.
C9_EveryNameIsFolded ==
  (/\ once # <<>>
   /\ options.nameCase # <<>>
   /\ options.nameCase[1].ignore = <<>>) =>
    /\ \A i \in 1..Len(once[1].tables) :
         TableNamesInCase(options.nameCase[1].strategy, once[1].tables[i])
    /\ AllInCase(options.nameCase[1].strategy, Names(once[1].views))
    /\ AllInCase(options.nameCase[1].strategy, Names(once[1].routines))
    /\ AllInCase(options.nameCase[1].strategy, Names(once[1].triggers))

\* The run that refutes C9: under strategy lower the table Users becomes
\* users, while its primary key stays Users_PKey, the view V_all, the
\* routine Cleanup and the trigger Trg.
C9_ViewAndKeyNamesKeepTheirCase ==
  /\ once # <<>>
  /\ options.nameCase = <<[strategy |-> "lower", ignore |-> <<>>]>>
  /\ once[1].tables # <<>>
  /\ once[1].tables[1].name = Chars("users")
  /\ once[1].tables[1].primaryKey[1].name = Chars("Users_PKey")
  /\ Names(once[1].views) = <<Chars("v_active"), Chars("V_all")>>
  /\ Names(once[1].routines) = <<Chars("Cleanup")>>
  /\ Names(once[1].triggers) = <<Chars("Trg")>>

(***************************************************************************)
(* The properties of the loaders, under SpecLoad.                          *)
(***************************************************************************)

\* C10: when the promise of loadPostgres or loadMariaDB has settled, on
\* whatever path, the client or the pool the call created has been ended.
C10_SettledLoadHasClosedItsClient ==
  \A i \in LoadCalls :
    loads[i].pc = "settled" => loads[i].client \in {"none", "ended"}

\* The run that refutes C10: loadMariaDB has created its pool,
\* getConnection() has failed, and the promise is rejected with the pool
\* never ended.
C10_FailedConnectLeavesPoolOpen ==
  \E i \in LoadCalls :
    /\ loads[i].loader = "mariadb"
    /\ loads[i].pc = "settled"
    /\ loads[i].result = "rejected"
    /\ loads[i].client = "created"

(***************************************************************************)
(* The shape of a generated script: wrapping, order, banner, quoting.      *)
(***************************************************************************)
\* The positions at which the non-empty lines of a text begin.
NonEmptyLines(text) == {i \in LineStarts(text) : LineAt(text, i) # <<>>}

FirstLine(text) ==
  LineAt(text, CHOOSE i \in NonEmptyLines(text) : \A j \in NonEmptyLines(text) : i <= j)

LastLine(text) ==
  LineAt(text, CHOOSE i \in NonEmptyLines(text) : \A j \in NonEmptyLines(text) : j <= i)

\* The statement that opens a transaction in the dialect of a script.
Opener(s) == IF s.dialect = "postgres" THEN Chars("BEGIN;") ELSE Chars("START TRANSACTION;")

\* C11: a script generated with withTransaction begins with the line
\* BEGIN; (toPostgres) or START TRANSACTION; (toMariaDB) and ends with
\* the line COMMIT;.  A script generated without it has neither line.
C11_TransactionWrapsTheScript ==
  script # <<>> =>
    IF script[1].opts.withTransaction
    THEN /\ FirstLine(script[1].text) = Opener(script[1])
         /\ LastLine(script[1].text) = Chars("COMMIT;")
    ELSE \A i \in LineStarts(script[1].text) :
           /\ LineAt(script[1].text, i) # Opener(script[1])
           /\ LineAt(script[1].text, i) # Chars("COMMIT;")

\* A MariaDB script in a transaction with statements between the opener
\* and COMMIT;, the last of them the definition of a created trigger.
C11_WrappedMariaScriptWithStatements ==
  /\ script # <<>>
  /\ script[1].dialect = "mariadb"
  /\ script[1].opts.withTransaction
  /\ Cardinality(NonEmptyLines(script[1].text)) > 4
  /\ Contains(script[1].text, Chars("CALL g()") \o EOL \o EOL \o Chars("COMMIT;"))

\* Every position of a text at which one of the words stands.
Places(text, words) ==
  {i \in 1..Len(text) : \E w \in words : BeginsAt(text, i, w)}

AlterColumnText(s, t) ==
  Chars("ALTER TABLE ") \o Quoted(s, t.name) \o Chars(" ALTER COLUMN ")

TodoText(kind, change) == Chars("-- TODO: ") \o Chars(kind) \o <<" ">> \o change.name

\* The groups of statements one changed table contributes, in the order
\* of the claim, each as the places of its statements in the script.
TableGroups(s, c) ==
  << Places(s.text, {DropColumnText(s, c.table, col) :
                       col \in Range(MustDrop(s, c.addedColumns, c.removedColumns))}),
     Places(s.text, {AddColumnText(s, c.table, col) :
                       col \in Range(MustCreate(s, c.addedColumns, c.removedColumns))}),
     Places(s.text, IF c.columnChanges = <<>> THEN {} ELSE {AlterColumnText(s, c.table)}),
     Places(s.text, {DropIndexText(s, x) :
                       x \in Range(MustDrop(s, c.addedIndexes, c.removedIndexes))}),
     Places(s.text, {CreateIndexText(s, c.table, x.unique, x.name) :
                       x \in Range(MustCreate(s, c.addedIndexes, c.removedIndexes))}) >>

\* The groups of statements of a script generated from a diff, in the
\* order of the claim.
Groups(s, d) ==
  << Places(s.text, {Opener(s)}),
     Places(s.text, {Chars("-- SAFE MODE:")}),
     Places(s.text, {DropTableText(s, t) :
                       t \in Range(MustDrop(s, d.tables.added, d.tables.removed))}),
     Places(s.text, {CreateTableText(s, t) :
                       t \in Range(MustCreate(s, d.tables.added, d.tables.removed))}) >>
  \o flatten([i \in 1..Len(d.tables.changed) |-> TableGroups(s, d.tables.changed[i])])
  \o << Places(s.text, {DropViewText(s, v) :
                          v \in Range(MustDrop(s, d.views.added, d.views.removed))}),
        Places(s.text, {CreateViewText(s, v) :
                          v \in Range(MustCreate(s, d.views.added, d.views.removed))}),
        Places(s.text, {TodoText("view", c) : c \in Range(d.views.changed)}),
        Places(s.text, {DropRoutineText(s, r) :
                          r \in Range(MustDrop(s, d.routines.added, d.routines.removed))}),
        Places(s.text, {CreateRoutineText(s, r) :
                          r \in Range(MustCreate(s, d.routines.added, d.routines.removed))}),
        Places(s.text, {TodoText("routine", c) : c \in Range(d.routines.changed)}),
        Places(s.text, {DropTriggerText(s, g) :
                          g \in Range(MustDrop(s, d.triggers.added, d.triggers.removed))}),
        Places(s.text, {CreateTriggerText(s, g) :
                          g \in Range(MustCreate(s, d.triggers.added, d.triggers.removed))}),
        Places(s.text, {TodoText("trigger", c) : c \in Range(d.triggers.changed)}),
        Places(s.text, {EOL \o Chars("COMMIT;")}) >>

\* Every place of a group is before every place of every later group.
InOrder(groups) ==
  \A g \in 1..Len(groups), h \in 1..Len(groups) :
    g < h => \A p \in groups[g], q \in groups[h] : p < q

\* C12: in a script of either generator the statements stand in this
\* order: the opener, the banner, the table drops, the table creates,
\* then for each changed table in the order of the diff its column drops,
\* column adds, column alterations, index drops and index creates, then
\* the drops, creates and TODO comments of the views, of the routines and
\* of the triggers, then COMMIT;.  No statement of a later group stands
\* before a statement of an earlier one.
C12_StatementsInGroupOrder ==
  script # <<>> => InOrder(Groups(script[1], DiffOf(script[1].of)))

\* The number of groups of a script that hold a statement.
Filled(groups) == Cardinality({g \in 1..Len(groups) : groups[g] # {}})

\* A script with two changed tables, audit_log before users, each with
\* columns dropped, added and altered, users with indexes dropped and
\* created as well, followed by view, routine and trigger statements, in
\* a transaction.
C12_TwoChangedTablesAndEveryKind ==
  /\ script # <<>>
  /\ Len(DiffOf(script[1].of).tables.changed) = 2
  /\ DiffOf(script[1].of).tables.changed[1].table.name = Chars("audit_log")
  /\ script[1].opts.withTransaction
  /\ \A g \in 1..3 :
       TableGroups(script[1], DiffOf(script[1].of).tables.changed[1])[g] # {}
  /\ \A g \in 1..5 :
       TableGroups(script[1], DiffOf(script[1].of).tables.changed[2])[g] # {}
  /\ Filled(Groups(script[1], DiffOf(script[1].of))) >= 14

\* The places of the banner in a script.
Banner(s) == Places(s.text, {Chars("-- SAFE MODE:")})

\* The place of the line that follows the opener, or of the first line
\* when there is no opener.
AfterOpener(s) == IF s.opts.withTransaction THEN Len(Opener(s) \o EOL \o EOL) + 1 ELSE 1

\* The places of a script at which an object is dropped, commented out or
\* not.
Drops(s) == Places(s.text, {Chars("DROP TABLE"), Chars("DROP INDEX"), Chars("DROP VIEW"),
                            Chars("DROP FUNCTION"), Chars("DROP PROCEDURE"),
                            Chars("DROP TRIGGER"), Chars(" DROP COLUMN ")})

\* C13: a script holds the line -- SAFE MODE: ... when and only when it was
\* generated with safeMode and drops at least one table; the banner is
\* then the line after the opener (the first line when there is none) and
\* stands before every drop.  A script that drops only columns, indexes,
\* views, routines or triggers has no banner.
C13_BannerIffSafeModeAndTableDrop ==
  script # <<>> =>
    /\ Banner(script[1]) # {}
         <=> /\ script[1].opts.safeMode
             /\ MustDrop(script[1], DiffOf(script[1].of).tables.added,
                         DiffOf(script[1].of).tables.removed) # <<>>
    /\ Banner(script[1]) # {} =>
         /\ Banner(script[1]) = {AfterOpener(script[1])}
         /\ \A p \in Drops(script[1]) : AfterOpener(script[1]) < p

\* A safeMode script in a transaction that drops a table: the banner is
\* its second line.
C13_BannerAfterOpener ==
  /\ script # <<>>
  /\ script[1].opts.safeMode
  /\ script[1].opts.withTransaction
  /\ Banner(script[1]) = {AfterOpener(script[1])}
  /\ Contains(script[1].text, Chars("-- DROP TABLE"))

\* C14: in a script of toMariaDB every identifier stands between
\* backticks and none between double quotes: the script holds no double
\* quote at all (no default and no definition of the inputs has one), and
\* every ALTER COLUMN statement of a changed column names the column in
\* backticks.
C14_MariaScriptQuotesWithBackticks ==
  (script # <<>> /\ script[1].dialect = "mariadb") =>
    /\ ~Contains(script[1].text, <<"\"">>)
    /\ \A i \in Places(script[1].text, {Chars(" ALTER COLUMN ")}) :
         BeginsAt(script[1].text, i, Chars(" ALTER COLUMN ") \o <<Backtick>>)

\* The run that refutes C14: users.email differs between the two models
\* and the MariaDB script alters it as "email", in double quotes, in a
\* statement whose table is in backticks.
C14_AlterColumnInDoubleQuotes ==
  /\ script # <<>>
  /\ script[1].dialect = "mariadb"
  /\ Contains(script[1].text,
              Chars("ALTER TABLE ") \o backtick(Chars("users")) \o Chars(" ALTER COLUMN ")
                \o quoteIdent(Chars("email")))

(***************************************************************************)
(* The comparators of one table, under SpecShape: both models hold one     *)
(* table t, and one column, index, foreign key or the primary key of t     *)
(* varies over every combination of its attributes.                        *)
(***************************************************************************)
ColA == Column(Chars("a"), Chars("int"), <<>>, FALSE, Undef, Undef, Undef)

ShapeModel(columns, primaryKey, indexes, fks) ==
  SchemaModel(<<Table(Chars("t"), columns, primaryKey, indexes, <<>>, fks)>>,
              <<>>, <<>>, <<>>)

ColumnShapes ==
  {Column(Chars("c"), dataType, <<>>, nullable, default, generated, collation) :
     dataType \in {Chars("int"), Chars("text")},
     nullable \in BOOLEAN,
     default \in {Undef, Null, Chars("0")},
     generated \in {Undef, Null, Chars("identity")},
     collation \in {Undef, Chars("C")}}

IndexShapes ==
  {Index(Chars("i"), unique, columns, using) :
     unique \in BOOLEAN,
     columns \in {<<Chars("a"), Chars("b")>>, <<Chars("b"), Chars("a")>>,
                  <<Chars("B"), Chars("A")>>, <<Chars("a")>>},
     using \in {Undef, Null, Chars("btree"), Chars("BTREE"), Chars("hash")}}

ForeignKeyShapes ==
  {ForeignKey(Chars("f"), columns, refTable, refColumns, Undef, Undef) :
     columns \in {<<Chars("a"), Chars("b")>>, <<Chars("B"), Chars("a")>>, <<Chars("a")>>},
     refTable \in {Chars("orgs"), Chars("Orgs"), Chars("teams")},
     refColumns \in {<<Chars("id"), Chars("k")>>, <<Chars("K"), Chars("id")>>,
                     <<Chars("id")>>}}
  \cup
  {ForeignKey(Chars("f"), <<Chars("a")>>, Chars("orgs"), <<Chars("id")>>, onUpdate, onDelete) :
     onUpdate \in {Undef, Null, Chars("cascade"), Chars("CASCADE")},
     onDelete \in {Undef, Null, Chars("Restrict"), Chars("set null")}}

PrimaryKeyShapes ==
  { <<>>,
    <<PrimaryKey(Chars("t_pkey"), <<Chars("a"), Chars("b")>>)>>,
    <<PrimaryKey(Chars("pk_t"), <<Chars("b"), Chars("a")>>)>>,
    <<PrimaryKey(Chars("t_pkey"), <<Chars("a")>>)>>,
    <<PrimaryKey(Undef, <<Chars("a"), Chars("c")>>)>> }

ColumnFamily == {ShapeModel(<<ColA, c>>, <<>>, <<>>, <<>>) : c \in ColumnShapes}
IndexFamily == {ShapeModel(<<ColA>>, <<>>, <<x>>, <<>>) : x \in IndexShapes}
ForeignKeyFamily == {ShapeModel(<<ColA>>, <<>>, <<>>, <<f>>) : f \in ForeignKeyShapes}
PrimaryKeyFamily == {ShapeModel(<<ColA>>, pk, <<>>, <<>>) : pk \in PrimaryKeyShapes}

InitShape ==
  /\ \/ a \in ColumnFamily /\ b \in ColumnFamily
     \/ a \in IndexFamily /\ b \in IndexFamily
     \/ a \in ForeignKeyFamily /\ b \in ForeignKeyFamily
     \/ a \in PrimaryKeyFamily /\ b \in PrimaryKeyFamily
  /\ dAB = <<>>
  /\ dBA = <<>>
  /\ dAA = <<>>
  /\ GenIdle /\ NormIdle /\ LoadIdle /\ PipeIdle

SpecShape == InitShape /\ [][NextDiff]_vars

\* The pairs of tables of the two models that computeDiff matches, and
\* the change it reports for the table of a name, if any.
MatchedTables == {p \in Range(a.tables) \X Range(b.tables) : p[1].name = p[2].name}

ChangesOf(d, name) == {c \in Range(d.tables.changed) : c.table.name = name}

\* The pairs of elements of two lists that bear the same name.
Matched(source, target) == {p \in Range(source) \X Range(target) : p[1].name = p[2].name}

\* Two optional values differ, an absent one and null counting as equal.
Differs(x, y) == Coalesce(x, Null) # Coalesce(y, Null)

\* The entry of an attribute in a ColumnChange is there when and only
\* when the attribute differs, and then holds A's value and B's.
EntryIffDiffers(entry, x, y) ==
  IF Differs(x, y)
    THEN /\ Len(entry) = 1
         /\ ~Differs(entry[1].from, x)
         /\ ~Differs(entry[1].to, y)
    ELSE entry = NoChange

\* What columnChanges must hold for a column that is x in A and y in B.
ColumnReported(columnChanges, x, y) ==
  IF \/ x.dataType # y.dataType
     \/ x.nullable # y.nullable
     \/ Differs(x.default, y.default)
     \/ Differs(x.generated, y.generated)
     \/ Differs(x.collation, y.collation)
    THEN /\ Cardinality({k \in 1..Len(columnChanges) : columnChanges[k].name = x.name}) = 1
         /\ \A e \in Range(columnChanges) :
              e.name = x.name =>
                /\ e.change.typeChanged
                     = (IF x.dataType # y.dataType
                          THEN FromTo(x.dataType, y.dataType) ELSE NoChange)
                /\ e.change.nullableChanged
                     = (IF x.nullable # y.nullable
                          THEN FromTo(x.nullable, y.nullable) ELSE NoChange)
                /\ EntryIffDiffers(e.change.defaultChanged, x.default, y.default)
                /\ EntryIffDiffers(e.change.generatedChanged, x.generated, y.generated)
                /\ EntryIffDiffers(e.change.collationChanged, x.collation, y.collation)
    ELSE \A e \in Range(columnChanges) : e.name # x.name

\* The list a changed table holds under a field, the empty list when the
\* table is not reported as changed.
ListOf(d, name, field) ==
  IF ChangesOf(d, name) = {} THEN <<>>
  ELSE (CHOOSE c \in ChangesOf(d, name) : TRUE)[field]

\* C15: a column that both tables hold under one name is in columnChanges
\* when and only when its dataType, nullable, default, generated or
\* collation differs (absent and null counting as equal), and its
\* ColumnChange then has one from/to entry, with A's value and B's, for
\* each attribute that differs and none for the others.
C15_ColumnChangedIffAnAttributeDiffers ==
  dAB # <<>> =>
    \A t \in MatchedTables :
      \A c \in Matched(t[1].columns, t[2].columns) :
        ColumnReported(ListOf(dAB[1], t[1].name, "columnChanges"), c[1], c[2])

\* Column c differs in its type, its default and its collation and in
\* nothing else: its ColumnChange has those three entries and no other.
C15_ThreeAttributesDiffer ==
  /\ dAB # <<>>
  /\ \E t \in MatchedTables :
       \E c \in Matched(t[1].columns, t[2].columns) :
         /\ c[1].dataType # c[2].dataType
         /\ c[1].nullable = c[2].nullable
         /\ Differs(c[1].default, c[2].default)
         /\ c[1].generated = Undef /\ c[2].generated = Null
         /\ Differs(c[1].collation, c[2].collation)
         /\ \E e \in Range(ListOf(dAB[1], t[1].name, "columnChanges")) :
              /\ e.name = c[1].name
              /\ e.change.typeChanged # NoChange
              /\ e.change.nullableChanged = NoChange
              /\ e.change.generatedChanged = NoChange

\* A list of names as a collection: how many times it holds each name.
BagOf(names) ==
  [n \in Range(names) |-> Cardinality({k \in 1..Len(names) : names[k] = n})]

Lowered(names) == [k \in 1..Len(names) |-> toLowerCase(names[k])]

\* Two optional texts are the same whatever the case of their letters; an
\* absent one is the same as an absent one only.
SameFolded(x, y) ==
  IF IsNullish(x) \/ IsNullish(y) THEN IsNullish(x) /\ IsNullish(y)
  ELSE toLowerCase(x) = toLowerCase(y)

IndexDiffers(x, y) ==
  \/ x.unique # y.unique
  \/ ~SameFolded(x.using, y.using)
  \/ BagOf(Lowered(x.columns)) # BagOf(Lowered(y.columns))

\* C16: an index that both tables hold under one name is in indexChanges
\* when and only when the unique flags differ, or the access methods
\* differ whatever their case (absent equal to absent), or the column
\* lists differ as collections of lower-cased names; the order of the
\* columns makes no change.
C16_IndexChangedIffItDiffers ==
  dAB # <<>> =>
    \A t \in MatchedTables :
      \A x \in Matched(t[1].indexes, t[2].indexes) :
        (\E e \in Range(ListOf(dAB[1], t[1].name, "indexChanges")) : e.name = x[1].name)
          <=> IndexDiffers(x[1], x[2])

\* Index i is on (a, b) using btree in A and on (B, A) using BTREE in B,
\* and the diff is empty.
C16_ReorderedColumnsAreNoChange ==
  /\ dAB # <<>>
  /\ \E t \in MatchedTables :
       \E x \in Matched(t[1].indexes, t[2].indexes) :
         /\ x[1].columns = <<Chars("a"), Chars("b")>>
         /\ x[2].columns = <<Chars("B"), Chars("A")>>
         /\ x[1].using = Chars("btree")
         /\ x[2].using = Chars("BTREE")
         /\ x[1].unique = x[2].unique
  /\ dAB[1].tables.changed = <<>>

ForeignKeyDiffers(x, y) ==
  \/ BagOf(Lowered(x.columns)) # BagOf(Lowered(y.columns))
  \/ BagOf(Lowered(x.refColumns)) # BagOf(Lowered(y.refColumns))
  \/ ~SameFolded(x.refTable, y.refTable)
  \/ ~SameFolded(x.onUpdate, y.onUpdate)
  \/ ~SameFolded(x.onDelete, y.onDelete)

\* C17: a foreign key that both tables hold under one name is in
\* foreignKeyChanges when and only when its columns or its referenced
\* columns differ as collections of lower-cased names, or the referenced
\* tables differ whatever their case, or onUpdate or onDelete differ
\* whatever their case (absent equal to absent).
C17_ForeignKeyChangedIffItDiffers ==
  dAB # <<>> =>
    \A t \in MatchedTables :
      \A x \in Matched(t[1].fks, t[2].fks) :
        (\E e \in Range(ListOf(dAB[1], t[1].name, "foreignKeyChanges")) :
           e.name = x[1].name)
          <=> ForeignKeyDiffers(x[1], x[2])

\* Foreign key f differs in the case and the order of its columns, its
\* referenced table and its referenced columns only, and the diff is
\* empty.
C17_CaseAndOrderAreNoChange ==
  /\ dAB # <<>>
  /\ \E t \in MatchedTables :
       \E x \in Matched(t[1].fks, t[2].fks) :
         /\ x[1].columns = <<Chars("a"), Chars("b")>>
         /\ x[2].columns = <<Chars("B"), Chars("a")>>
         /\ x[1].refTable = Chars("orgs")
         /\ x[2].refTable = Chars("Orgs")
         /\ x[1].refColumns = <<Chars("id"), Chars("k")>>
         /\ x[2].refColumns = <<Chars("K"), Chars("id")>>
  /\ dAB[1].tables.changed = <<>>

\* Foreign key f has onUpdate cascade in A and CASCADE in B, onDelete
\* absent in A and null in B, and the diff is empty.
C17_ActionCaseIsNoChange ==
  /\ dAB # <<>>
  /\ \E t \in MatchedTables :
       \E x \in Matched(t[1].fks, t[2].fks) :
         /\ x[1].onUpdate = Chars("cascade")
         /\ x[2].onUpdate = Chars("CASCADE")
         /\ x[1].onDelete = Undef
         /\ x[2].onDelete = Null
  /\ dAB[1].tables.changed = <<>>

\* The primary-key change computeDiff reports for the table of a name:
\* none, or one {from, to}.
PrimaryKeyChangeOf(d, name) ==
  IF ChangesOf(d, name) = {} THEN <<>>
  ELSE (CHOOSE c \in ChangesOf(d, name) : TRUE).primaryKeyChange

\* What comparePrimaryKeys must report for the keys x of A and y of B.
PrimaryKeyReported(change, x, y) ==
  IF x = <<>> /\ y = <<>> THEN change = <<>>
  ELSE IF x = <<>> THEN change = <<[from |-> <<>>, to |-> y]>>
  ELSE IF y = <<>> THEN change = <<[from |-> x, to |-> <<>>]>>
  ELSE IF BagOf(x[1].columns) = BagOf(y[1].columns) THEN change = <<>>
  ELSE change = <<[from |-> x, to |-> y]>>

\* C18: comparePrimaryKeys reports nothing when neither table has a
\* primary key or both have the same columns, in any order and under any
\* constraint name; {to} when only B has one; {from} when only A has
\* one; {from, to} when the columns differ.
C18_PrimaryKeyComparedByColumns ==
  dAB # <<>> =>
    \A t \in MatchedTables :
      PrimaryKeyReported(PrimaryKeyChangeOf(dAB[1], t[1].name),
                         t[1].primaryKey, t[2].primaryKey)

\* The primary key is t_pkey on (a, b) in A and pk_t on (b, a) in B, and
\* the diff is empty.
C18_RenamedReorderedKeyIsNoChange ==
  /\ dAB # <<>>
  /\ \E t \in MatchedTables :
       /\ t[1].primaryKey = <<PrimaryKey(Chars("t_pkey"), <<Chars("a"), Chars("b")>>)>>
       /\ t[2].primaryKey = <<PrimaryKey(Chars("pk_t"), <<Chars("b"), Chars("a")>>)>>
  /\ dAB[1].tables.changed = <<>>

(***************************************************************************)
(* Routines in computeDiff, under SpecDiff.                                *)
(***************************************************************************)
SameRoutine(x, y) == x.kind = y.kind /\ x.name = y.name

\* No two routines of a model have the same kind and name.
UniqueRoutines(m) ==
  \A i \in 1..Len(m.routines), j \in 1..Len(m.routines) :
    SameRoutine(m.routines[i], m.routines[j]) => i = j

\* The positions of the changed list of a collection that are about the
\* routine x.
ChangedFor(changed, x) ==
  {k \in 1..Len(changed) : changed[k].name = x.kind \o <<":">> \o x.name}

\* C19: computeDiff matches routines by kind and name.  A routine of B
\* is in routines.added when and only when A has no routine of its kind
\* and name, whatever A has under that name in the other kind, and it is
\* then in no changed entry; a routine that A and B hold under one kind
\* and name has one changed entry, from A's definition to B's, when the
\* definitions differ, and none when they do not.
C19_RoutinesMatchedByKindAndName ==
  (dAB # <<>> /\ UniqueRoutines(a) /\ UniqueRoutines(b)) =>
    /\ \A y \in Range(b.routines) :
         IF \E x \in Range(a.routines) : SameRoutine(x, y)
           THEN y \notin Range(dAB[1].routines.added)
           ELSE /\ y \in Range(dAB[1].routines.added)
                /\ ChangedFor(dAB[1].routines.changed, y) = {}
    /\ \A x \in Range(a.routines), y \in Range(b.routines) :
         SameRoutine(x, y) =>
           IF x.definition = y.definition
             THEN ChangedFor(dAB[1].routines.changed, x) = {}
             ELSE /\ Cardinality(ChangedFor(dAB[1].routines.changed, x)) = 1
                  /\ \A k \in ChangedFor(dAB[1].routines.changed, x) :
                       dAB[1].routines.changed[k].change
                         = [from |-> x.definition, to |-> y.definition]

\* A has the function cleanup; B has the function cleanup with another
\* body and the procedure cleanup: the procedure is added and the
\* function is the one changed entry.
C19_FunctionChangedProcedureAdded ==
  /\ dAB # <<>>
  /\ a.routines = <<Routine(Chars("cleanup"), Chars("function"), Chars("SELECT 1;"))>>
  /\ b.routines = <<Routine(Chars("cleanup"), Chars("function"), Chars("SELECT 2;")),
                    Routine(Chars("cleanup"), Chars("procedure"), Chars("DROP TABLE tmp;"))>>
  /\ Names(dAB[1].routines.added) = <<Chars("cleanup")>>
  /\ Len(dAB[1].routines.changed) = 1
  /\ dAB[1].routines.removed = <<>>

(***************************************************************************)
(* Normalizing, then comparing: the two models are normalized with the     *)
(* same options and the results handed to computeDiff, as loadDiff does.   *)
(***************************************************************************)
\* normalizeSchemaModel(model): options = {}.
DefaultOptions == NormalizationOptions(<<>>, FALSE, <<>>)

PipelineOptions == {DefaultOptions, DesktopOptions}

TypeSpellings ==
  { Chars("integer"), Chars("INTEGER"), Chars("int4"), Chars("Int4"), Chars("int8"),
    Chars("timestamp without time zone"), Chars("Timestamp Without Time Zone"),
    Chars("timestamp"), Chars("TIMESTAMP"), Chars("timestamp with time zone"),
    Chars("text") }

SynonymFamily ==
  {ShapeModel(<<ColA, Column(Chars("c"), dataType, <<>>, nullable, Undef, Undef, Undef)>>,
              <<>>, <<>>, <<>>) :
     dataType \in TypeSpellings, nullable \in BOOLEAN}

InitPipe ==
  /\ a \in SynonymFamily
  /\ b \in SynonymFamily
  /\ dAB = <<>>
  /\ dBA = <<>>
  /\ dAA = <<>>
  /\ GenIdle /\ NormIdle /\ LoadIdle /\ PipeIdle

Compared(o, source, target) ==
  [options |-> o, source |-> source, target |-> target,
   diff |-> computeDiff(source, target)]

NormalizeAndCompare ==
  /\ compared = <<>>
  /\ \E o \in PipelineOptions :
       compared' = <<Compared(o, normalizeSchemaModel(a, o), normalizeSchemaModel(b, o))>>
  /\ UNCHANGED <<report, catalogVars, connection, diffVars, genVars, normVars, loadVars>>

NextPipe == NormalizeAndCompare

SpecPipe == InitPipe /\ [][NextPipe]_vars

\* The spellings of a type that stand for one type, in lower case.
SynonymClasses ==
  { {Chars("integer"), Chars("int4")},
    {Chars("timestamp without time zone"), Chars("timestamp")} }

Synonyms(s, t) ==
  \E class \in SynonymClasses : toLowerCase(s) \in class /\ toLowerCase(t) \in class

\* Two columns differ in nothing but the spelling of one type.
OnlySynonymsApart(x, y) ==
  /\ [x EXCEPT !.dataType = <<>>] = [y EXCEPT !.dataType = <<>>]
  /\ Synonyms(x.dataType, y.dataType)

\* The column of a name in the table of a name of a model.
ColumnOf(m, table, column) ==
  CHOOSE c \in UNION {Range(t.columns) : t \in {u \in Range(m.tables) : u.name = table}} :
    c.name = column

\* C20: when two columns of one name differ only in that their types are
\* synonyms (integer and int4, or timestamp without time zone and
\* timestamp, in any case of letters), normalizeSchemaModel with the
\* default options gives the two the same dataType, and computeDiff of
\* the two normalized models has no change for the column.
C20_SynonymTypesCollapse ==
  (compared # <<>> /\ compared[1].options = DefaultOptions) =>
    \A t \in MatchedTables :
      \A c \in Matched(t[1].columns, t[2].columns) :
        OnlySynonymsApart(c[1], c[2]) =>
          /\ ColumnOf(compared[1].source, t[1].name, c[1].name).dataType
               = ColumnOf(compared[1].target, t[2].name, c[2].name).dataType
          /\ \A e \in Range(ListOf(compared[1].diff, t[1].name, "columnChanges")) :
               e.name # c[1].name

\* Column c is Timestamp Without Time Zone in A and TIMESTAMP in B; both
\* are timestamp after normalization with the default options and the
\* diff is empty.
C20_TimestampSpellingsCompareEqual ==
  /\ compared # <<>>
  /\ compared[1].options = DefaultOptions
  /\ \E t \in MatchedTables :
       \E c \in Matched(t[1].columns, t[2].columns) :
         /\ c[1].dataType = Chars("Timestamp Without Time Zone")
         /\ c[2].dataType = Chars("TIMESTAMP")
         /\ ColumnOf(compared[1].source, t[1].name, c[1].name).dataType = Chars("timestamp")
  /\ compared[1].diff.tables.changed = <<>>

(***************************************************************************)
(* The canonical form of a default, under SpecNorm.                        *)
(***************************************************************************)
\* The number of parentheses opened and not yet closed after the first i
\* characters of s.
Depth(s, i) ==
  Cardinality({j \in 1..i : s[j] = "("}) - Cardinality({j \in 1..i : s[j] = ")"})

\* The first character of s is a parenthesis that its last character
\* closes: the pair wraps the whole of s.
WrapsWhole(s) ==
  /\ Len(s) >= 2
  /\ s[1] = "("
  /\ s[Len(s)] = ")"
  /\ \A i \in 1..(Len(s) - 1) : Depth(s, i) > 0

\* s without the pairs of parentheses that wrap the whole of it, as long
\* as something is left inside.
RECURSIVE Unwrapped(_)
Unwrapped(s) ==
  IF WrapsWhole(s) /\ trim(SubSeq(s, 2, Len(s) - 1)) # <<>>
    THEN Unwrapped(trim(SubSeq(s, 2, Len(s) - 1)))
    ELSE s

\* The canonical form of a default: absent, null and blank defaults as
\* they are; otherwise trimmed, unwrapped, and now() written
\* CURRENT_TIMESTAMP.
CanonicalDefault(value) ==
  IF IsNullish(value) \/ trim(value) = <<>> THEN value
  ELSE IF toLowerCase(Unwrapped(trim(value))) = Chars("now()")
    THEN Chars("CURRENT_TIMESTAMP")
    ELSE Unwrapped(trim(value))

\* C21: with normalizeDefaults on, the default of every column of the
\* normalized model is the canonical form of the default it had: only
\* parentheses that wrap the whole expression are gone, so ((now()))
\* is CURRENT_TIMESTAMP, (0) is 0 and (a) + (b) is (a) + (b).
C21_OnlyWrappingParenthesesStripped ==
  (once # <<>> /\ options.normalizeDefaults) =>
    \A i \in 1..Len(model.tables) :
      \A k \in 1..Len(model.tables[i].columns) :
        once[1].tables[i].columns[k].default
          = CanonicalDefault(model.tables[i].columns[k].default)

\* The run that refutes C21: the default (a) + (b), whose first
\* parenthesis is closed before the end, comes out as a) + (b.
C21_InnerParenthesesTornApart ==
  /\ once # <<>>
  /\ options.normalizeDefaults
  /\ model.tables # <<>>
  /\ model.tables[1].columns[1].default = Chars("(a) + (b)")
  /\ once[1].tables[1].columns[1].default = Chars("a) + (b")

\* The defaults of the claim that the code does canonicalize.
C21_WrappedDefaultsCanonical ==
  (once # <<>> /\ options.normalizeDefaults) =>
    \A i \in 1..Len(model.tables) :
      \A k \in 1..Len(model.tables[i].columns) :
        /\ model.tables[i].columns[k].default = Chars(" ((now())) ")
             => once[1].tables[i].columns[k].default = Chars("CURRENT_TIMESTAMP")
        /\ model.tables[i].columns[k].default = Chars("(0)")
             => once[1].tables[i].columns[k].default = Chars("0")

(***************************************************************************)
(* Refusal and failure of a load, under SpecLoad.                          *)
(***************************************************************************)
\* The schemas each loader must refuse.
Refused(loader) ==
  IF loader = "postgres"
    THEN {"pg_catalog", "information_schema", "pg_toast", "pg_internal"}
    ELSE {"mysql", "performance_schema", "information_schema", "sys"}

NoRetry ==
  \A i \in LoadCalls : loads[i].pc = "settled" => loads'[i] = loads[i]

\* Once a load is rejected computeDiff has not been called and is not
\* going to be, and nothing comes out of the comparison; a load that
\* resolves has all four parts of its model and has released its
\* connection and ended its client.
FailedLoadAbortsComparison ==
  /\ (\E i \in LoadCalls : loads[i].result = "rejected") =>
       /\ comparison[1].computeDiffCalls = 0
       /\ comparison[1].state \in {"loading", "failed"}
  /\ \A i \in LoadCalls :
       loads[i].result = "resolved" =>
         /\ loads[i].parts = Len(Introspections)
         /\ loads[i].client = "ended"
         /\ loads[i].conn \in {"none", "released"}
  /\ comparison[1].state = "diffed" =>
       \A i \in LoadCalls : loads[i].result = "resolved"

\* C23: when either of the two concurrent loads of a comparison fails,
\* computeDiff is never called and the comparison yields nothing; no load
\* is started again once it has settled; the other load, if it succeeds,
\* has released its connection and ended its client when it resolves;
\* and no loader resolves with a model that lacks a part.
C23_FailedLoadAbortsWithoutRetry ==
  []FailedLoadAbortsComparison /\ [][NoRetry]_vars

\* One load was rejected by a catalog query after two parts, the
\* comparison has failed, and the other load has run to its end and
\* resolved with its pool ended.
C23_OtherLoadFinishesAndReleases ==
  \E i \in LoadCalls, j \in LoadCalls :
    /\ loads[i].error = "catalog"
    /\ loads[i].parts = 2
    /\ loads[i].result = "rejected"
    /\ comparison[1].state = "failed"
    /\ loads[j].loader = "mariadb"
    /\ loads[j].result = "resolved"
    /\ loads[j].conn = "released"
    /\ loads[j].client = "ended"

(***************************************************************************)
(* The output of the compare command (cli/src/index.ts): the counts of     *)
(* summarizeDiff for the JSON document, the text of renderDiffSummary.     *)
(***************************************************************************)
counts(bucket) ==
  [added |-> Len(bucket.added), removed |-> Len(bucket.removed),
   changed |-> Len(bucket.changed)]

summarizeDiff(diff) ==
  [tables |-> counts(diff.tables), views |-> counts(diff.views),
   routines |-> counts(diff.routines), triggers |-> counts(diff.triggers)]

\* chalk.bold at chalk.level = 0, the level the tests run at: no escape
\* codes.
bold(text) == text

\* The three count lines of one bucket, as renderDiffSummary pushes them.
countLines(bucket) ==
  << Chars("  Added: ") \o numStr(Len(bucket.removed)),
     Chars("  Removed: ") \o numStr(Len(bucket.added)),
     Chars("  Changed: ") \o numStr(Len(bucket.changed)) >>

renderDiffSummary(diff) ==
  join(<< bold(Chars("Tables:")) >>
       \o countLines(diff.tables)
       \o [i \in 1..Len(diff.tables.changed) |->
             Chars("    - ") \o diff.tables.changed[i].table.name \o Chars(": +")
               \o numStr(Len(diff.tables.changed[i].removedColumns)) \o Chars(" columns, -")
               \o numStr(Len(diff.tables.changed[i].addedColumns)) \o Chars(" columns")]
       \o << <<>>, bold(Chars("Views:")) >> \o countLines(diff.views)
       \o << <<>>, bold(Chars("Routines:")) >> \o countLines(diff.routines)
       \o << <<>>, bold(Chars("Triggers:")) >> \o countLines(diff.triggers),
       <<"\n">>)

\* The inputs of the report: the pairs of models of the differ and of
\* the generators.
InitReport == InitDiff \/ InitGen

\* The action of the compare command once the diff is computed: the
\* summary of the JSON format and the text of the text format.
Summarize ==
  /\ dBA # <<>>
  /\ report = <<>>
  /\ \E of \in {"AB", "BA"} :
       report' = <<[of |-> of, summary |-> summarizeDiff(DiffOf(of)),
                    rendered |-> renderDiffSummary(DiffOf(of))]>>
  /\ UNCHANGED <<compared, catalogVars, connection, diffVars, genVars, normVars, loadVars>>

NextReport == ComputeDiffAB \/ ComputeDiffBA \/ Summarize

SpecReport == InitReport /\ [][NextReport]_vars

\* The number a sequence of decimal digits writes.
RECURSIVE ParseNat(_)
ParseNat(digits) ==
  IF digits = <<>> THEN 0
  ELSE 10 * ParseNat(SubSeq(digits, 1, Len(digits) - 1))
         + (CHOOSE n \in 0..9 : numStr(n) = <<digits[Len(digits)]>>)

\* The number printed after a label on the first line at or after the
\* place from that begins with the label.
PrintedAfter(text, from, label) ==
  LET at == CHOOSE i \in {j \in LineStarts(text) : j >= from /\ BeginsAt(text, j, label)} :
              \A k \in {j \in LineStarts(text) : j >= from /\ BeginsAt(text, j, label)} :
                i <= k
  IN ParseNat(SubSeq(LineAt(text, at), Len(label) + 1, Len(LineAt(text, at))))

\* The place of the line that opens the section of a bucket.
SectionOf(text, header) ==
  CHOOSE i \in LineStarts(text) : LineAt(text, i) = header

\* The counts the section of a header of the text prints.
PrintedCounts(text, header) ==
  [added |-> PrintedAfter(text, SectionOf(text, header), Chars("  Added: ")),
   removed |-> PrintedAfter(text, SectionOf(text, header), Chars("  Removed: ")),
   changed |-> PrintedAfter(text, SectionOf(text, header), Chars("  Changed: "))]

\* C24: for every diff and each of its four buckets, the numbers the
\* text of renderDiffSummary prints after Added:, Removed: and Changed:
\* in the bucket's section are the added, removed and changed counts
\* summarizeDiff returns for the bucket.
C24_RenderedCountsAreTheSummary ==
  report # <<>> =>
    /\ PrintedCounts(report[1].rendered, Chars("Tables:")) = report[1].summary.tables
    /\ PrintedCounts(report[1].rendered, Chars("Views:")) = report[1].summary.views
    /\ PrintedCounts(report[1].rendered, Chars("Routines:")) = report[1].summary.routines
    /\ PrintedCounts(report[1].rendered, Chars("Triggers:")) = report[1].summary.triggers

\* The run that refutes C24: B has two tables and A none; the summary
\* counts 2 tables added and 0 removed, the text prints Added: 0 and
\* Removed: 2.
C24_AddedPrintedAsRemoved ==
  /\ report # <<>>
  /\ report[1].of = "AB"
  /\ Len(a.tables) = 0
  /\ Len(b.tables) = 2
  /\ report[1].summary.tables = [added |-> 2, removed |-> 0, changed |-> 0]
  /\ PrintedCounts(report[1].rendered, Chars("Tables:"))
       = [added |-> 0, removed |-> 2, changed |-> 0]

\* The changed count of every bucket is printed under its own label.
C24_ChangedCountsAgree ==
  report # <<>> =>
    /\ PrintedCounts(report[1].rendered, Chars("Tables:")).changed
         = report[1].summary.tables.changed
    /\ PrintedCounts(report[1].rendered, Chars("Views:")).changed
         = report[1].summary.views.changed
    /\ PrintedCounts(report[1].rendered, Chars("Routines:")).changed
         = report[1].summary.routines.changed
    /\ PrintedCounts(report[1].rendered, Chars("Triggers:")).changed
         = report[1].summary.triggers.changed

(***************************************************************************)
(* introspectTables of the two loaders: the primary key and the indexes    *)
(* of a table, built from the rows of the catalog queries.                 *)
(***************************************************************************)

\* String.prototype.split on a one-character separator.
RECURSIVE split(_, _)
split(s, sep) ==
  LET at == {i \in 1..Len(s) : s[i] = sep}
  IN IF at = {} THEN <<s>>
     ELSE LET i == CHOOSE j \in at : \A k \in at : j <= k
          IN <<SubSeq(s, 1, i - 1)>> \o split(SubSeq(s, i + 1, Len(s)), sep)

\* c.replace(/"/g, '')
withoutQuotes(c) == SelectIdx(c, {i \in 1..Len(c) : c[i] # "\""}, 1)

\* \w of a regular expression
IsWord(c) == CodeOf[c] \in (48..57) \cup (65..90) \cup (97..122) \cup {95}

\* /USING\s+(\w+)/i.exec(indexdef): the captured word, or Undef.
usingMatch(indexdef) ==
  LET word(i) ==  \* the place of the word that follows USING at i, or 0
        LET spaces == {j \in (i + 5)..Len(indexdef) :
                         \A k \in (i + 5)..j : IsSpace(indexdef[k])}
            from == i + 5 + Cardinality(spaces)
        IN IF spaces # {} /\ from <= Len(indexdef) /\ IsWord(indexdef[from])
           THEN from ELSE 0
      found == {i \in 1..Len(indexdef) :
                  /\ BeginsAt(toUpperCase(indexdef), i, Chars("USING"))
                  /\ word(i) # 0}
  IN IF found = {} THEN Undef
     ELSE LET from == word(CHOOSE i \in found : \A k \in found : i <= k)
              chars == {j \in from..Len(indexdef) :
                          \A k \in from..j : IsWord(indexdef[k])}
          IN SubSeq(indexdef, from, from + Cardinality(chars) - 1)

\* indexdef.match(/\((.*)\)/): the text between the first ( and the last )
\* after it, or Undef.
columnsMatch(indexdef) ==
  LET opens == {i \in 1..Len(indexdef) :
                  indexdef[i] = "(" /\ \E j \in (i + 1)..Len(indexdef) : indexdef[j] = ")"}
  IN IF opens = {} THEN Undef
     ELSE LET open == CHOOSE i \in opens : \A k \in opens : i <= k
              closes == {j \in (open + 1)..Len(indexdef) : indexdef[j] = ")"}
              close == CHOOSE j \in closes : \A k \in closes : j >= k
          IN SubSeq(indexdef, open + 1, close - 1)

\* The Index postgres.ts builds from one row of pg_indexes.
postgresIndex(row) ==
  Index(row.indexname,
        Contains(row.indexdef, Chars("UNIQUE")),
        IF columnsMatch(row.indexdef) = Undef THEN <<>>
        ELSE LET parts == split(columnsMatch(row.indexdef), ",")
             IN [i \in 1..Len(parts) |-> withoutQuotes(trim(parts[i]))],
        usingMatch(row.indexdef))

\* The loop over indexQuery.rows of loadPostgres: every row of a known
\* table becomes an index of the table.
postgresIndexes(tableName, rows) ==
  LET kept == SelectIdx(rows, {i \in 1..Len(rows) : rows[i].tablename = tableName}, 1)
  IN [i \in 1..Len(kept) |-> postgresIndex(kept[i])]

\* The rows of a list the loop of loadMariaDB does not skip.
notPrimary(rows) ==
  SelectIdx(rows, {i \in 1..Len(rows) : rows[i].index_name # Chars("PRIMARY")}, 1)

\* The loop over the rows of information_schema.statistics of
\* loadMariaDB: the rows of PRIMARY are skipped, the others accumulate
\* one index for each index name, its columns in the order of the rows.
mariadbIndexes(tableName, rows) ==
  LET kept == notPrimary(SelectIdx(rows, {i \in 1..Len(rows) : rows[i].table_name = tableName}, 1))
      first == SelectIdx(kept, {i \in 1..Len(kept) :
                                 \A j \in 1..(i - 1) : kept[j].index_name # kept[i].index_name}, 1)
  IN [i \in 1..Len(first) |->
        Index(first[i].index_name,
              first[i].non_unique = 0,
              LET mine == SelectIdx(kept, {j \in 1..Len(kept) :
                                             kept[j].index_name = first[i].index_name}, 1)
              IN [j \in 1..Len(mine) |-> mine[j].column_name],
              toLowerCase(first[i].index_type))]

\* The loop over the rows of the primary key query, the same in both
\* loaders: the name of the first row, the columns of all rows.
primaryKeyOf(tableName, rows) ==
  LET kept == SelectIdx(rows, {i \in 1..Len(rows) : rows[i].table_name = tableName}, 1)
  IN IF kept = <<>> THEN <<>>
     ELSE <<PrimaryKey(kept[1].constraint_name,
                       [i \in 1..Len(kept) |-> kept[i].column_name])>>

(***************************************************************************)
(* The rows the two servers return for a table.  A primary key is backed   *)
(* by a unique index: PostgreSQL lists it in pg_indexes under the name of  *)
(* the constraint, MariaDB lists it in information_schema.statistics       *)
(* under the name PRIMARY, which is the name of the constraint as well.    *)
(***************************************************************************)
UsersTable == Chars("users")

pkName(loader) == IF loader = "postgres" THEN Chars("users_pkey") ELSE Chars("PRIMARY")

\* quote_ident of PostgreSQL: a name that is not all lower case is quoted.
pgQuoteIdent(name) == IF toLowerCase(name) = name THEN name ELSE <<"\"">> \o name \o <<"\"">>

\* pg_get_indexdef
indexdef(index) ==
  Chars("CREATE ") \o When(index.unique, Chars("UNIQUE ")) \o Chars("INDEX ")
    \o pgQuoteIdent(index.name) \o Chars(" ON public.") \o UsersTable
    \o Chars(" USING btree (")
    \o join([i \in 1..Len(index.columns) |-> pgQuoteIdent(index.columns[i])], Chars(", "))
    \o Chars(")")

pgIndexRows(indexes) ==
  [i \in 1..Len(indexes) |->
     [tablename |-> UsersTable, indexname |-> indexes[i].name,
      indexdef |-> indexdef(indexes[i])]]

RECURSIVE statisticsRows(_)
statisticsRows(indexes) ==
  IF indexes = <<>> THEN <<>>
  ELSE [i \in 1..Len(Head(indexes).columns) |->
          [table_name |-> UsersTable, index_name |-> Head(indexes).name,
           column_name |-> Head(indexes).columns[i],
           non_unique |-> IF Head(indexes).unique THEN 0 ELSE 1,
           index_type |-> Chars("BTREE"), seq_in_index |-> i]]
       \o statisticsRows(Tail(indexes))

\* The rows of the primary key query and of the index query for a table
\* with the given primary key columns (none: no key) and secondary
\* indexes.  ORDER BY index_name of MariaDB: by the name, case folded.
Catalog(loader, keyColumns, secondary) ==
  LET backing == IF keyColumns = <<>> THEN <<>>
                 ELSE <<Index(pkName(loader), TRUE, keyColumns, Undef)>>
      all == backing \o secondary
  IN [loader |-> loader,
      pkRows |-> [i \in 1..Len(keyColumns) |->
                    [table_name |-> UsersTable, constraint_name |-> pkName(loader),
                     column_name |-> keyColumns[i], ordinal_position |-> i]],
      indexRows |-> IF loader = "postgres" THEN pgIndexRows(all)
                    ELSE statisticsRows(
                           sortBy(all, [i \in 1..Len(all) |-> toLowerCase(all[i].name)]))]

KeyColumnsPool == { <<>>, <<Chars("id")>>, <<Chars("tenant_id"), Chars("id")>> }

SecondaryPool ==
  << Index(Chars("idx_users_email"), FALSE, <<Chars("email")>>, Undef),
     Index(Chars("users_email_key"), TRUE, <<Chars("email")>>, Undef),
     Index(Chars("idx_users_name"), FALSE, <<Chars("last_name"), Chars("first_name")>>, Undef),
     Index(Chars("idx_users_order"), FALSE, <<Chars("Order")>>, Undef) >>

InitCatalog ==
  /\ \E loader \in Loaders, keyColumns \in KeyColumnsPool,
        keep \in SUBSET (1..Len(SecondaryPool)) :
       catalog = <<Catalog(loader, keyColumns, SelectIdx(SecondaryPool, keep, 1))>>
  /\ introspected = <<>>
  /\ compared = <<>>
  /\ report = <<>>
  /\ connection = <<>>
  /\ DiffIdle /\ GenIdle /\ NormIdle /\ LoadIdle

\* introspectTables up to the primary key loop: the table with its key.
IntrospectPrimaryKey ==
  /\ catalog # <<>>
  /\ introspected = <<>>
  /\ introspected' = <<Table(UsersTable, <<>>,
                             primaryKeyOf(UsersTable, catalog[1].pkRows),
                             <<>>, <<>>, <<>>)>>
  /\ UNCHANGED <<catalog, compared, report, connection, diffVars, genVars, normVars, loadVars>>

\* introspectTables, the index loop: the indexes of the table.
IntrospectIndexes ==
  /\ introspected # <<>>
  /\ introspected[1].indexes = <<>>
  /\ introspected' =
       <<[introspected[1] EXCEPT !.indexes =
            IF catalog[1].loader = "postgres"
            THEN postgresIndexes(UsersTable, catalog[1].indexRows)
            ELSE mariadbIndexes(UsersTable, catalog[1].indexRows)]>>
  /\ UNCHANGED <<catalog, compared, report, connection, diffVars, genVars, normVars, loadVars>>

NextCatalog == IntrospectPrimaryKey \/ IntrospectIndexes

SpecCatalog == InitCatalog /\ [][NextCatalog]_vars

\* The index that backs the primary key of a loaded table: the index of
\* the server that bears the name of the key's constraint.
BacksPrimaryKey(table, index) ==
  table.primaryKey # <<>> /\ index.name = table.primaryKey[1].name

\* C26: in the model a loader returns no table's indexes list holds the
\* index that backs the table's primary key.
C26_NoPrimaryKeyIndexAmongIndexes ==
  introspected # <<>> =>
    \A i \in 1..Len(introspected[1].indexes) :
      ~BacksPrimaryKey(introspected[1], introspected[1].indexes[i])

\* The run that refutes C26: loadPostgres on a table whose key is
\* users_pkey(id) and which has one secondary index returns two indexes,
\* the first of them users_pkey.
C26_PostgresListsThePrimaryKeyIndex ==
  /\ introspected # <<>>
  /\ catalog[1].loader = "postgres"
  /\ introspected[1].primaryKey = <<PrimaryKey(Chars("users_pkey"), <<Chars("id")>>)>>
  /\ Len(introspected[1].indexes) = 2
  /\ introspected[1].indexes[1]
       = Index(Chars("users_pkey"), TRUE, <<Chars("id")>>, Chars("btree"))

\* What does hold: loadMariaDB skips the rows of PRIMARY, so the model it
\* returns has the secondary indexes only.
C26_MariaDBSkipsThePrimaryKeyIndex ==
  (introspected # <<>> /\ catalog[1].loader = "mariadb") =>
    \A i \in 1..Len(introspected[1].indexes) :
      ~BacksPrimaryKey(introspected[1], introspected[1].indexes[i])

(***************************************************************************)
(* parseConnection of the command line (cli/src/helpers.ts).  new URL is   *)
(* the platform's parser: the model starts from the URL object it          *)
(* returns, a record [protocol, hostname, port, pathname, username,        *)
(* password, schema, ssl] whose last two fields are what                   *)
(* searchParams.get returns for the two names (Null: no such parameter).   *)
(***************************************************************************)
HexDigits == Chars("0123456789ABCDEF")

HexValue(c) == (CHOOSE i \in 1..16 : HexDigits[i] = upperChar(c)) - 1

\* decodeURIComponent on well-formed escapes of the ASCII range: %XX is
\* the character of code XX.
RECURSIVE decodeURIComponent(_)
decodeURIComponent(s) ==
  IF s = <<>> THEN <<>>
  ELSE IF s[1] = "%" /\ Len(s) >= 3
       THEN <<CHOOSE c \in AsciiSet : CodeOf[c] = 16 * HexValue(s[2]) + HexValue(s[3])>>
              \o decodeURIComponent(SubSeq(s, 4, Len(s)))
       ELSE <<s[1]>> \o decodeURIComponent(Tail(s))

\* kind === 'postgres' ? 5432 : 3306, with every kind given the port of
\* postgres.
defaultPortOfPostgres(kind) == 5432

\* kind === 'postgres' ? 5432 : 3306
defaultPort(kind) == IF kind = Chars("postgres") THEN 5432 ELSE 3306

\* url.protocol.replace(':', '')
kindOf(protocol) ==
  LET at == {i \in 1..Len(protocol) : protocol[i] = ":"}
  IN IF at = {} THEN protocol
     ELSE LET i == CHOOSE j \in at : \A k \in at : j <= k
          IN SubSeq(protocol, 1, i - 1) \o SubSeq(protocol, i + 1, Len(protocol))

\* The result of parseConnection: a SchemaRef, or the message of the
\* Error it throws.
parseConnection(url, defaultSchema) ==
  LET kind == kindOf(url.protocol)
      schema == Coalesce(url.schema, defaultSchema)
  IN IF kind # Chars("postgres") /\ kind # Chars("mariadb")
     THEN [error |-> Chars("Unsupported protocol ") \o url.protocol]
     ELSE IF IsNullish(schema) \/ schema = <<>>
     THEN [error |-> Chars("Schema must be provided via ?schema= or --schema")]
     ELSE [kind |-> kind,
           host |-> url.hostname,
           port |-> IF url.port # <<>> THEN ParseNat(url.port) ELSE defaultPort(kind),
           database |-> IF startsWith(url.pathname, <<"/">>) THEN Tail(url.pathname)
                        ELSE url.pathname,
           schema |-> schema,
           user |-> decodeURIComponent(url.username),
           password |-> IF url.password # <<>> THEN decodeURIComponent(url.password)
                        ELSE Undef,
           ssl |-> url.ssl = Chars("true")]

Url(protocol, hostname, port, pathname, username, password, schema, ssl) ==
  [protocol |-> protocol, hostname |-> hostname, port |-> port, pathname |-> pathname,
   username |-> username, password |-> password, schema |-> schema, ssl |-> ssl]

Protocols == {Chars("postgres:"), Chars("mariadb:"), Chars("mysql:"), Chars("https:")}

Urls ==
  { Url(protocol, Chars("localhost"), port, pathname, username, password, schema, ssl) :
      protocol \in Protocols,
      port \in {<<>>, Chars("6543")},
      pathname \in {Chars("/app"), <<>>},
      username \in {Chars("user"), Chars("us%40er")},
      password \in {<<>>, Chars("pass"), Chars("p%2Fss")},
      schema \in {Null, <<>>, Chars("public")},
      ssl \in {Null, Chars("true"), Chars("false"), Chars("TRUE")} }

DefaultSchemas == {Undef, <<>>, Chars("sales")}

InitConnection ==
  /\ \E url \in Urls, defaultSchema \in DefaultSchemas :
       connection = <<[url |-> url, defaultSchema |-> defaultSchema, parsed |-> <<>>]>>
  /\ compared = <<>> /\ report = <<>> /\ catalog = <<>> /\ introspected = <<>>
  /\ DiffIdle /\ GenIdle /\ NormIdle /\ LoadIdle

\* parseConnection(options.from, options.schema)
ParseConnection ==
  /\ connection # <<>>
  /\ connection[1].parsed = <<>>
  /\ connection' = <<[connection[1] EXCEPT
                        !.parsed = <<parseConnection(connection[1].url,
                                                     connection[1].defaultSchema)>>]>>
  /\ UNCHANGED <<compared, report, catalogVars, diffVars, genVars, normVars, loadVars>>

NextConnection == ParseConnection

SpecConnection == InitConnection /\ [][NextConnection]_vars

Threw(result) == "error" \in DOMAIN result

\* What the claim says of one URL, one explicit schema and the result.
ParsedAsSaid(url, given, result) ==
  LET supported == url.protocol \in {Chars("postgres:"), Chars("mariadb:")}
      \* the schema of the parameter when the URL has one, else the argument;
      \* an empty schema is no schema
      said == IF url.schema # Null THEN url.schema ELSE given
      noSchema == said \in {Undef, <<>>}
  IN /\ Threw(result) <=> (~supported \/ noSchema)
     /\ ~Threw(result) =>
          /\ result.kind \o <<":">> = url.protocol
          /\ result.host = url.hostname
          /\ <<"/">> \o result.database = url.pathname \/ result.database = url.pathname
          /\ result.user \in {Chars("user"), Chars("us@er")}
          /\ (url.username = Chars("us%40er")) <=> (result.user = Chars("us@er"))
          /\ CASE url.password = <<>> -> result.password = Undef
               [] url.password = Chars("pass") -> result.password = Chars("pass")
               [] OTHER -> result.password = Chars("p/ss")
          /\ result.port = (IF url.port = Chars("6543") THEN 6543
                            ELSE IF url.protocol = Chars("postgres:") THEN 5432 ELSE 3306)
          /\ result.ssl <=> (url.ssl = Chars("true"))
          /\ result.schema = said

PivotColumns ==
  { Column(Chars("c"), Chars("int"), <<>>, FALSE, Undef, Undef, Undef),
    Column(Chars("c"), Chars("text"), <<>>, TRUE, Chars("0"), Chars("identity"), Chars("C")),
    Column(Chars("c"), Chars("int"), <<>>, TRUE, Null, Null, Chars("C")),
    Column(Chars("c"), Chars("text"), <<>>, FALSE, Chars("0"), Undef, Undef) }

PivotFamily == {ShapeModel(<<ColA, c>>, <<>>, <<>>, <<>>) : c \in PivotColumns}

FkToOrgs == ForeignKey(Chars("f"), <<Chars("a")>>, Chars("orgs"), <<Chars("id")>>, Undef, Undef)
FkToTeams == ForeignKey(Chars("g"), <<Chars("a")>>, Chars("teams"), <<Chars("id")>>, Undef, Undef)
FkToTeamsCascade ==
  ForeignKey(Chars("g"), <<Chars("a")>>, Chars("teams"), <<Chars("id")>>, Undef, Chars("cascade"))

KeyOnlyForeignKeys ==
  {ShapeModel(<<ColA>>, <<>>, <<>>, fks) :
     fks \in {<<>>, <<FkToOrgs>>, <<FkToTeams>>, <<FkToTeamsCascade>>}}

KeyOnlyChecks ==
  {SchemaModel(<<Table(Chars("t"), <<ColA>>, <<>>, <<>>, checks, <<>>)>>, <<>>, <<>>, <<>>) :
     checks \in {<<>>, <<Check(Chars("a_positive"), Chars("a > 0"))>>,
                 <<Check(Chars("a_positive"), Chars("a >= 0"))>>,
                 <<Check(Chars("a_small"), Chars("a < 10"))>>}}

InitPlan ==
  /\ \/ a \in ColumnFamily /\ b \in PivotFamily
     \/ a \in PrimaryKeyFamily /\ b \in PrimaryKeyFamily
     \/ a \in KeyOnlyForeignKeys /\ b \in KeyOnlyForeignKeys
     \/ a \in KeyOnlyChecks /\ b \in KeyOnlyChecks
  /\ dAB = <<>>
  /\ dBA = <<>>
  /\ dAA = <<>>
  /\ GenIdle /\ NormIdle /\ LoadIdle /\ PipeIdle

SpecPlan == InitPlan /\ [][NextGen]_vars

\* The model a script's diff was computed from, and the one it was
\* computed against: computeDiff(source, target).
SourceOf(s) == IF s.of = "AB" THEN a ELSE b
TargetOf(s) == IF s.of = "AB" THEN b ELSE a

\* The model of the desired side of a script: the source of the diff for
\* AtoB, its target for BtoA.
DesiredOf(s) == IF s.opts.direction = "AtoB" THEN SourceOf(s) ELSE TargetOf(s)

\* An identifier in the quotes of either dialect.
InQuotes(name) == {<<"\"">> \o name \o <<"\"">>, <<Backtick>> \o name \o <<Backtick>>}

\* The script has a statement ALTER TABLE t ALTER COLUMN c <clause>;
Alters(text, clause) ==
  \E t \in InQuotes(Chars("t")), c \in InQuotes(Chars("c")) :
    Contains(text, Chars("ALTER TABLE ") \o t \o Chars(" ALTER COLUMN ") \o c \o <<" ">>
                     \o clause \o <<";">>)

\* The script has the statement, and the TODO comment is its next line.
AltersThenTodo(text, clause, todo) ==
  \E t \in InQuotes(Chars("t")), c \in InQuotes(Chars("c")) :
    Contains(text, Chars("ALTER TABLE ") \o t \o Chars(" ALTER COLUMN ") \o c \o <<" ">>
                     \o clause \o <<";">> \o EOL \o EOL
                     \o Chars("ALTER TABLE ") \o t \o Chars(" -- TODO: ") \o todo)

\* What the claim says of the script s, the change of column c and the
\* column c of the desired side.
AlteredAsDesired(s, change, desired) ==
  /\ IF change.typeChanged # NoChange
     THEN AltersThenTodo(s.text, Chars("TYPE ") \o desired.dataType,
                         Chars("verify casts for c"))
     ELSE ~Contains(s.text, Chars(" TYPE ")) /\ ~Contains(s.text, Chars("verify casts"))
  /\ Alters(s.text, Chars("SET NOT NULL"))
       <=> (change.nullableChanged # NoChange /\ ~desired.nullable)
  /\ Alters(s.text, Chars("DROP NOT NULL"))
       <=> (change.nullableChanged # NoChange /\ desired.nullable)
  /\ Contains(s.text, Chars("NOT NULL")) => change.nullableChanged # NoChange
  /\ Alters(s.text, Chars("DROP DEFAULT"))
       <=> (change.defaultChanged # NoChange /\ IsNullish(desired.default))
  /\ IF change.defaultChanged # NoChange /\ ~IsNullish(desired.default)
     THEN Alters(s.text, Chars("SET DEFAULT ") \o desired.default)
     ELSE ~Contains(s.text, Chars("SET DEFAULT"))
  /\ Contains(s.text, Chars("-- TODO: reconcile generation strategy for c"))
       <=> change.generatedChanged # NoChange
  /\ Contains(s.text, Chars("-- TODO: adjust collation for c"))
       <=> change.collationChanged # NoChange
  \* nothing else: two lines for the type, one for each other change
  /\ Cardinality(NonEmptyLines(s.text))
       = (IF s.opts.withTransaction THEN 2 ELSE 0)
         + (IF change.typeChanged # NoChange THEN 2 ELSE 0)
         + Cardinality({f \in {"nullableChanged", "defaultChanged", "generatedChanged",
                               "collationChanged"} : change[f] # NoChange})

\* The script is generated from a diff whose one changed table has one
\* changed column, c.
OneColumnChanged(s) ==
  /\ Len(DiffOf(s.of).tables.changed) = 1
  /\ Len(DiffOf(s.of).tables.changed[1].columnChanges) = 1
  /\ DiffOf(s.of).tables.changed[1].columnChanges[1].name = Chars("c")

\* C27: for a changed column the ALTER statements of either generator
\* carry the values of the desired side, the source of the diff for AtoB
\* and its target for BtoA: a type change gives ALTER COLUMN c TYPE
\* <desired dataType> followed by the verify-casts TODO; a nullable
\* change gives SET NOT NULL iff the desired column is not nullable and
\* DROP NOT NULL otherwise; a default change gives DROP DEFAULT iff the
\* desired default is absent or null and SET DEFAULT <desired default>
\* otherwise; generation and collation changes give their TODO comments
\* and nothing else.
C27_AlterStatementsCarryDesiredValues ==
  (script # <<>> /\ OneColumnChanged(script[1])) =>
    AlteredAsDesired(script[1],
                     DiffOf(script[1].of).tables.changed[1].columnChanges[1].change,
                     DesiredOf(script[1]).tables[1].columns[2])

\* A BtoA script from computeDiff(a, b) for a column that is int, not
\* nullable, without default in a and text, nullable, default 0 in b:
\* the three statements carry the values of b.
C27_BtoACarriesTheValuesOfB ==
  /\ script # <<>>
  /\ script[1].of = "AB"
  /\ script[1].dialect = "postgres"
  /\ script[1].opts.direction = "BtoA"
  /\ a.tables[1].columns[2].dataType = Chars("int")
  /\ ~a.tables[1].columns[2].nullable
  /\ a.tables[1].columns[2].default = Undef
  /\ Contains(script[1].text, Chars("ALTER COLUMN \"c\" TYPE text;"))
  /\ Contains(script[1].text, Chars("ALTER COLUMN \"c\" DROP NOT NULL;"))
  /\ Contains(script[1].text, Chars("ALTER COLUMN \"c\" SET DEFAULT 0;"))

\* The lines of a script that are neither the opener of its transaction
\* nor COMMIT;.
BodyLines(s) ==
  {i \in NonEmptyLines(s.text) :
     LineAt(s.text, i) \notin {Opener(s), Chars("COMMIT;")}}

\* C28: every kind of table change reaches the script: when the diff has
\* a changed table, the script of either generator has at least one
\* statement or TODO comment for it, also when the only difference is a
\* primary key change or a check or foreign key added, removed or
\* changed; so a non-empty diff never gives a script with nothing but
\* the transaction bracket.
C28_EveryTableChangeReachesTheScript ==
  (script # <<>> /\ DiffOf(script[1].of).tables.changed # <<>>) =>
    BodyLines(script[1]) # {}

\* The run that refutes C28: the table t has the primary key t_pkey(a) in
\* b and none in a; computeDiff(a, b) reports the table changed with a
\* primaryKeyChange, and the PostgreSQL script in a transaction is
\* BEGIN; and COMMIT; and nothing else.
C28_PrimaryKeyChangeGivesEmptyScript ==
  /\ script # <<>>
  /\ script[1].of = "AB"
  /\ script[1].dialect = "postgres"
  /\ a.tables[1].primaryKey = <<>>
  /\ b.tables[1].primaryKey = <<PrimaryKey(Chars("t_pkey"), <<Chars("a")>>)>>
  /\ Len(dAB[1].tables.changed) = 1
  /\ dAB[1].tables.changed[1].primaryKeyChange # <<>>
  /\ script[1].text = Chars("BEGIN;") \o EOL \o EOL \o Chars("COMMIT;")

\* What does hold: a changed table with a column or an index added,
\* removed or changed has a line in the script.
C28_ColumnAndIndexChangesReachTheScript ==
  (/\ script # <<>>
   /\ \E i \in 1..Len(DiffOf(script[1].of).tables.changed) :
        LET change == DiffOf(script[1].of).tables.changed[i]
        IN \/ change.addedColumns # <<>> \/ change.removedColumns # <<>>
           \/ change.columnChanges # <<>>
           \/ change.addedIndexes # <<>> \/ change.removedIndexes # <<>>)
    => BodyLines(script[1]) # {}

\* The script of the dialect of s for a diff and options.
ScriptFor(dialect, diff, opts) ==
  IF dialect = "postgres" THEN toPostgres(diff, opts) ELSE toMariaDB(diff, opts)

SameTrigger(x, y) == x.table = y.table /\ x.name = y.name

\* No two triggers of a model are on the same table under the same name.
UniqueTriggers(m) ==
  \A i \in 1..Len(m.triggers), j \in 1..Len(m.triggers) :
    SameTrigger(m.triggers[i], m.triggers[j]) => i = j

\* C30: computeDiff never confuses triggers of different (table, name)
\* pairs.  Two triggers of the models with different pairs have different
\* keys; a trigger of B is in triggers.added when and only when A has no
\* trigger of its table and name, and a trigger of A is in
\* triggers.removed when and only when B has none: no trigger is dropped
\* from the diff.
C30_TriggersMatchedByTableAndName ==
  (dAB # <<>> /\ UniqueTriggers(a) /\ UniqueTriggers(b)) =>
    /\ \A x, y \in Range(a.triggers) \cup Range(b.triggers) :
         triggerKey(x) = triggerKey(y) => SameTrigger(x, y)
    /\ \A y \in Range(b.triggers) :
         (y \in Range(dAB[1].triggers.added))
           <=> ~\E x \in Range(a.triggers) : SameTrigger(x, y)
    /\ \A x \in Range(a.triggers) :
         (x \in Range(dAB[1].triggers.removed))
           <=> ~\E y \in Range(b.triggers) : SameTrigger(x, y)

\* The run that refutes C30: A has the trigger c on table a.b, B the
\* trigger b.c on table a.  Both have the key a.b.c: computeDiff reports
\* neither added nor removed, but one trigger a.b.c changed.
C30_DistinctTriggersCompared ==
  /\ dAB # <<>>
  /\ a.triggers = <<Trigger(Chars("c"), Chars("a.b"), Chars("before"), <<Chars("insert")>>,
                            Chars("CALL f()"))>>
  /\ b.triggers = <<Trigger(Chars("b.c"), Chars("a"), Chars("before"), <<Chars("insert")>>,
                            Chars("CALL g()"))>>
  /\ dAB[1].triggers.added = <<>>
  /\ dAB[1].triggers.removed = <<>>
  /\ Names(dAB[1].triggers.changed) = <<Chars("a.b.c")>>

=============================================================================
